---- MODULE Spec2Model ----
(***************************************************************************)
(* A state-machine model of the canvas editor of hacknote                  *)
(* (src/js/app.js, class CanvasEditor, and the page-level glue of class    *)
(* HackNote that loads a page into the editor and stores the scene back).  *)
(*                                                                         *)
(* JavaScript objects are modelled as records with one field per property  *)
(* the editor reads or writes; a property that an object does not have is  *)
(* encoded by an "absent" marker.  Object identity is modelled by          *)
(* references: a reference either points at a position of the live object  *)
(* list or holds a detached object that is no longer in the list.          *)
(* Coordinates are canvas coordinates; the kind of a numeric property      *)
(* (number, NaN, ...) is kept once for x and y, which the editor always    *)
(* treats alike.                                                           *)
(***************************************************************************)
EXTENDS Integers, Sequences, FiniteSets, TLC

\* ------------------------------------------------------------------ bounds

\* Longest live object list the model lets the user build.
MaxObjects == 3
\* Number of saveState calls in one session of the main specification.
MaxCommits == 2
\* A pointer coordinate away from the origin, further than the minimum drag.
Far == 3
\* Longest freehand point list.
MaxPoints == 2
\* Image decodes in flight at one time.
MaxPending == 1
\* Number of saveState calls in one session of the history specification.
HistCommits == 52
\* Zoom and pan steps in one session of the viewport specification.
MaxViewSteps == 3
\* Workspaces and pages of the application in one session of the loading
\* specification.
MaxWorkspaces == 3
MaxPages == 3
\* Largest canvas coordinate of a placed picture's corner.
PlaceRange == 5000

\* --------------------------------------------------------- program constants

maxHistory == 50

\* Longest side of an uploaded picture, in canvas units (loadImage).
maxSize == 400
\* The drag a shape tool needs before it commits an object.
minDrag == 2
\* The smallest width and height handleResize leaves a rect or an image.
minSize == 20
\* The smallest radius handleResize leaves an ellipse.
minRadius == 10

\* The pointer positions the model samples, and the object positions it keeps.
Coords == {0, Far}
\* The positions of a pointer-move.
MoveCoords == {Far}
\* The positions of a pointer-down.
DownCoords == {0}
\* Whether shift is held at a pointer-down.
Shifts == {FALSE}
Texts == {"b"}
StrokeWidths == {2, 3}
Tools == {"select", "draw", "rect", "text", "connect", "image"}
Pages == {"p1", "p2"}

\* ------------------------------------------------------------ JS values

\* Kinds of a JavaScript value held in a numeric property.  The payload of a
\* value is meaningful for kind "num" only and is 0 otherwise.
Falsy(k, v) == k \in {"absent", "undefined", "NaN", "null"} \/ (k = "num" /\ v = 0)

\* The kind of (a + d) for a number d, as JavaScript computes it.
PlusKind(k) == IF k \in {"num", "null"} THEN "num" ELSE "NaN"
PlusVal(k, v, d) == IF k = "num" THEN v + d ELSE IF k = "null" THEN d ELSE 0

\* JSON.stringify of a value followed by JSON.parse: undefined properties are
\* dropped, NaN becomes null.
JsonKind(k) == IF k = "undefined" THEN "absent" ELSE IF k = "NaN" THEN "null" ELSE k

\* --------------------------------------------------------------- objects

\* xk is the kind of the properties x and y, dsk the kind of _dragStartX and
\* _dragStartY (ds, dsy).  width and height, radiusX and radiusY, x2 and y2
\* are numbers on the objects that have them and 0 on the others.
BlankObject ==
  [type |-> "none", id |-> 0, xk |-> "absent", x |-> 0, y |-> 0, text |-> "",
   fromId |-> 0, toId |-> 0, src |-> "", imageElement |-> "none",
   points |-> <<>>, dsk |-> "absent", ds |-> 0, dsy |-> 0, strokeWidth |-> 0,
   width |-> 0, height |-> 0, radiusX |-> 0, radiusY |-> 0, x2 |-> 0, y2 |-> 0]

PathObject(pts, w) ==
  [BlankObject EXCEPT !.type = "path", !.points = pts, !.strokeWidth = w]

LineObject(px, py, px2, py2, w) ==
  [BlankObject EXCEPT !.type = "line", !.xk = "num", !.x = px, !.y = py,
                      !.x2 = px2, !.y2 = py2, !.strokeWidth = w]

RectObject(px, py, width, height, w) ==
  [BlankObject EXCEPT !.type = "rect", !.xk = "num", !.x = px, !.y = py,
                      !.width = width, !.height = height, !.strokeWidth = w]

EllipseObject(px, py, rx, ry, w) ==
  [BlankObject EXCEPT !.type = "ellipse", !.xk = "num", !.x = px, !.y = py,
                      !.radiusX = rx, !.radiusY = ry, !.strokeWidth = w]

TextObject(px, py, t) ==
  [BlankObject EXCEPT !.type = "text", !.xk = "num", !.x = px, !.y = py, !.text = t]

\* The natural width and height of the pictures the user uploads.
PictureSize == <<30, 30>>

\* A canvas element as large as those pictures: at the initial viewport
\* loadImage puts them at the origin.
PictureCanvas == <<30, 30>>

\* The image object loadImage adds: (px, py) is the corner that puts the
\* picture in the middle of the viewport.
ImageObject(px, py, s) ==
  [BlankObject EXCEPT !.type = "image", !.xk = "num", !.x = px, !.y = py,
                      !.width = PictureSize[1], !.height = PictureSize[2],
                      !.src = s, !.imageElement = "upload"]

ConnectorObject(f, t, w) ==
  [BlankObject EXCEPT !.type = "connector", !.fromId = f, !.toId = t,
                      !.strokeWidth = w]

\* ------------------------------------------------------------ references

NullRef == [idx |-> 0, det |-> <<>>]
LiveRef(i) == [idx |-> i, det |-> <<>>]
DetachedRef(o) == [idx |-> 0, det |-> <<o>>]
IsNull(r) == r.idx = 0 /\ r.det = <<>>

\* A bounding box as getObjectBounds returns it.
Bounds(x, y, width, height) == [x |-> x, y |-> y, width |-> width, height |-> height]

\* A point {x, y}.
Point(x, y) == [x |-> x, y |-> y]

\* resizeStart while no resize is in progress.
NoStart == [x |-> 0, y |-> 0, width |-> 0, height |-> 0, mouseX |-> 0, mouseY |-> 0]

\* ---------------------------------------------------------------- helpers

RECURSIVE SeqMax(_)
SeqMax(ids) == IF ids = <<>> THEN 0
               ELSE LET m == SeqMax(Tail(ids)) IN IF Head(ids) > m THEN Head(ids) ELSE m

RECURSIVE Filter(_, _)
\* The subsequence of the positions 1..Len(keep) where keep is TRUE.
Filter(objs, keep) ==
  IF objs = <<>> THEN <<>>
  ELSE IF Head(keep) THEN <<Head(objs)>> \o Filter(Tail(objs), Tail(keep))
       ELSE Filter(Tail(objs), Tail(keep))

Ids(objs) == [i \in 1..Len(objs) |-> objs[i].id]

\* ------------------------------------------------------------------ state

VARIABLES
  objects,            \* CanvasEditor.objects: the live object list
  selectedObjects,    \* CanvasEditor.selectedObjects: references, in order
  currentTool,        \* CanvasEditor.currentTool
  isDrawing,          \* CanvasEditor.isDrawing
  isDragging,         \* CanvasEditor.isDragging
  startX,             \* CanvasEditor.startX (canvas coordinate of pointer-down)
  startY,             \* CanvasEditor.startY
  isResizing,         \* CanvasEditor.isResizing
  resizeHandle,       \* CanvasEditor.resizeHandle ("none" for null)
  resizeObject,       \* CanvasEditor.resizeObject: a reference or null
  resizeStart,        \* CanvasEditor.resizeStart (NoStart for null)
  currentPath,        \* CanvasEditor.currentPath
  connectingFrom,     \* CanvasEditor.connectingFrom: a reference or null
  connectingPreview,  \* CanvasEditor.connectingPreview: <<>> for null, or <<point>>
  editingTextObject,  \* CanvasEditor.editingTextObject: a reference or null
  textInputOpen,      \* #canvasTextInput is displayed
  textFocused,        \* #canvasTextInput has the keyboard focus
  blurDue,            \* the input had the focus when a handler hid it or the
                      \* pointer went down on the canvas: its blur event is due
  textX,              \* #canvasTextInput.dataset.canvasX
  textY,              \* #canvasTextInput.dataset.canvasY
  strokeWidth,        \* CanvasEditor.strokeWidth
  history,            \* CanvasEditor.history: JSON snapshots
  historyIndex,       \* CanvasEditor.historyIndex
  objectIdCounter,    \* CanvasEditor.objectIdCounter
  currentPage,        \* HackNote.currentPage ("none" before a page is selected)
  canvasData,         \* page.canvasData of every page
  pendingImages,      \* the data URLs of the image decodes loadImage has
                      \* started and that have not completed
  issued,             \* the ids addObject has given out so far in the session
                      \* to objects of each page
  reused,             \* addObject has given an object an id it gave out before
                      \* on the same page
  notice,             \* what the handler that ran last told the user: the
                      \* title of the modal it opened and the line it wrote
                      \* to the console ("" for none)
  nCommits,           \* number of saveState calls so far in the session, the
                      \* snapshots taken by loadFromPage not counted
  lastOp,             \* the handler that ran last, and what it found
  sym,                \* bookkeeping of a run of commits, undos and redos
  scale,              \* CanvasEditor.scale, an exact fraction
  offsetX,            \* CanvasEditor.offsetX, an exact fraction
  offsetY,            \* CanvasEditor.offsetY, an exact fraction
  isPanning,          \* CanvasEditor.isPanning
  lastView,           \* the viewport handler that ran last, its anchor on the
                      \* screen, and the number of zoom steps so far
  fromBounds,         \* drawConnector: the bounds of the connector's source
  toBounds,           \* drawConnector: the bounds of the connector's target
  anchors,            \* drawConnector: the anchors calculateConnectorAnchors
                      \* returned, as a list (empty before the call)
  workspaces,         \* HackNote.workspaces: their names, in order
  pages,              \* HackNote.pages: their titles, in order
  currentWorkspace,   \* HackNote.currentWorkspace: its place in workspaces
                      \* (0 for null)
  saveTimeout,        \* HackNote._saveTimeout: the data the pending timer of
                      \* saveData will post, as a list (empty: no timer)
  appData,            \* the row of app_data in the server's database, as a
                      \* list (empty: no row)
  loadResult          \* how the fetch of loadData ended ("none" before it)

editorVars == <<objects, selectedObjects, currentTool, isDrawing, isDragging, startX,
          startY, isResizing, resizeHandle, resizeObject, resizeStart,
          currentPath, connectingFrom, connectingPreview, editingTextObject,
          textInputOpen,
          textFocused, blurDue, textX, textY, strokeWidth, history, historyIndex,
          objectIdCounter, currentPage, canvasData, pendingImages, issued,
          reused, notice, nCommits, lastOp, sym>>

viewVars == <<scale, offsetX, offsetY, isPanning, lastView>>

anchorVars == <<fromBounds, toBounds, anchors>>

hostVars == <<workspaces, pages, currentWorkspace, saveTimeout, appData, loadResult>>

vars == <<editorVars, viewVars, anchorVars, hostVars>>

\* The handler opened no modal and wrote nothing to the console.
Quiet == [modal |-> "", console |-> ""]

\* The editor and page state as one record, for the handlers below, which are
\* functions from the state before to the state after.
St ==
  [objects |-> objects, selectedObjects |-> selectedObjects,
   currentTool |-> currentTool, isDrawing |-> isDrawing,
   isDragging |-> isDragging, startX |-> startX, startY |-> startY,
   isResizing |-> isResizing, resizeHandle |-> resizeHandle,
   resizeObject |-> resizeObject, resizeStart |-> resizeStart,
   currentPath |-> currentPath,
   connectingFrom |-> connectingFrom, connectingPreview |-> connectingPreview,
   editingTextObject |-> editingTextObject,
   textInputOpen |-> textInputOpen, textFocused |-> textFocused,
   blurDue |-> blurDue, textX |-> textX,
   textY |-> textY,
   strokeWidth |-> strokeWidth, history |-> history,
   historyIndex |-> historyIndex, objectIdCounter |-> objectIdCounter,
   currentPage |-> currentPage, canvasData |-> canvasData,
   pendingImages |-> pendingImages, issued |-> issued, reused |-> reused,
   nCommits |-> nCommits, notice |-> Quiet]

\* The next state is the record s.
Becomes(s) ==
  /\ objects' = s.objects
  /\ selectedObjects' = s.selectedObjects
  /\ currentTool' = s.currentTool
  /\ isDrawing' = s.isDrawing
  /\ isDragging' = s.isDragging
  /\ startX' = s.startX
  /\ startY' = s.startY
  /\ isResizing' = s.isResizing
  /\ resizeHandle' = s.resizeHandle
  /\ resizeObject' = s.resizeObject
  /\ resizeStart' = s.resizeStart
  /\ currentPath' = s.currentPath
  /\ connectingFrom' = s.connectingFrom
  /\ connectingPreview' = s.connectingPreview
  /\ editingTextObject' = s.editingTextObject
  /\ textInputOpen' = s.textInputOpen
  /\ textFocused' = s.textFocused
  /\ blurDue' = s.blurDue
  /\ textX' = s.textX
  /\ textY' = s.textY
  /\ strokeWidth' = s.strokeWidth
  /\ history' = s.history
  /\ historyIndex' = s.historyIndex
  /\ objectIdCounter' = s.objectIdCounter
  /\ currentPage' = s.currentPage
  /\ canvasData' = s.canvasData
  /\ pendingImages' = s.pendingImages
  /\ issued' = s.issued
  /\ reused' = s.reused
  /\ nCommits' = s.nCommits
  /\ notice' = s.notice

\* ---------------------------------------------------------- serialization

\* The clone made of one object by getObjects and by saveState: a shallow copy
\* without the decoded-image handle of an image and with the point list of a
\* path copied.
StripClone(obj) ==
  IF obj.type = "image" THEN [obj EXCEPT !.imageElement = "none"] ELSE obj

\* A getObjects that also drops the source of an image.
getObjects_DropSrc(objs) ==
  [i \in 1..Len(objs) |-> [StripClone(objs[i]) EXCEPT !.src = ""]]

\* CanvasEditor.getObjects
getObjects(objs) == [i \in 1..Len(objs) |-> StripClone(objs[i])]

\* JSON.stringify of one cloned object, read back by JSON.parse.
JsonObject(obj) ==
  [obj EXCEPT !.xk = JsonKind(@), !.dsk = JsonKind(@),
              !.imageElement = IF @ = "none" THEN "none" ELSE "{}"]

\* JSON.stringify(state) of saveState: the snapshot stored in the history.
Stringify(state) == [i \in 1..Len(state) |-> JsonObject(state[i])]

\* The decoded-image handle an object gets when a scene is read back: a new
\* Image for an image object with a source, at the allocation site `site`.
WithImageElement(obj, site) ==
  IF obj.type = "image" /\ obj.src # "" THEN [obj EXCEPT !.imageElement = site]
  ELSE obj

\* A reference held across a replacement of the whole object list keeps the
\* object it pointed at, which is no longer in the list.
Detach(s, r) == IF r.idx > 0 THEN DetachedRef(s.objects[r.idx]) ELSE r

Deref(s, r) == IF r.idx > 0 THEN s.objects[r.idx] ELSE r.det[1]

\* A reference held across a filter of the object list: keep[i] tells whether
\* position i stays.
Rebind(s, r, keep) ==
  IF r.idx = 0 THEN r
  ELSE IF keep[r.idx]
       THEN LiveRef(Cardinality({j \in 1..r.idx : keep[j]}))
       ELSE DetachedRef(s.objects[r.idx])

\* ----------------------------------------------------------------- history

\* HackNote.saveCanvasData
saveCanvasData(s) ==
  IF s.currentPage # "none"
  THEN [s EXCEPT !.canvasData[s.currentPage] =
                    [present |-> TRUE, objs |-> getObjects(s.objects)]]
  ELSE s

\* A saveState that never drops the oldest entry.
saveState_NoEvict(s) ==
  LET sliced == SubSeq(s.history, 1, s.historyIndex + 1)
      state == [i \in 1..Len(s.objects) |-> StripClone(s.objects[i])]
  IN saveCanvasData([s EXCEPT !.history = Append(sliced, Stringify(state)),
                               !.historyIndex = s.historyIndex + 1,
                               !.nCommits = @ + 1])

\* A saveState that keeps the entries beyond the cursor.
saveState_NoTruncate(s) ==
  LET state == [i \in 1..Len(s.objects) |-> StripClone(s.objects[i])]
      pushed == Append(s.history, Stringify(state))
      idx == s.historyIndex + 1
      s1 == IF Len(pushed) > maxHistory
            THEN [s EXCEPT !.history = Tail(pushed), !.historyIndex = idx - 1]
            ELSE [s EXCEPT !.history = pushed, !.historyIndex = idx]
  IN saveCanvasData([s1 EXCEPT !.nCommits = @ + 1])

\* A saveState that does not store the scene in the page.
saveState_NoPageSave(s) ==
  LET sliced == SubSeq(s.history, 1, s.historyIndex + 1)
      state == [i \in 1..Len(s.objects) |-> StripClone(s.objects[i])]
      pushed == Append(sliced, Stringify(state))
      idx == s.historyIndex + 1
      s1 == IF Len(pushed) > maxHistory
            THEN [s EXCEPT !.history = Tail(pushed), !.historyIndex = idx - 1]
            ELSE [s EXCEPT !.history = pushed, !.historyIndex = idx]
  IN [s1 EXCEPT !.nCommits = @ + 1]

\* CanvasEditor.saveState
saveState(s) ==
  LET sliced == SubSeq(s.history, 1, s.historyIndex + 1)
      state == [i \in 1..Len(s.objects) |-> StripClone(s.objects[i])]
      pushed == Append(sliced, Stringify(state))
      idx == s.historyIndex + 1
      s1 == IF Len(pushed) > maxHistory
            THEN [s EXCEPT !.history = Tail(pushed), !.historyIndex = idx - 1]
            ELSE [s EXCEPT !.history = pushed, !.historyIndex = idx]
  IN saveCanvasData([s1 EXCEPT !.nCommits = @ + 1])

\* A restoreState that leaves the live list as it is.
restoreState_KeepScene(s) ==
  saveCanvasData([s EXCEPT !.selectedObjects = <<>>])

\* A restoreState that leaves the selection as it is: its members are the
\* objects of the list that has been replaced.
restoreState_KeepSelection(s) ==
  LET state == s.history[s.historyIndex + 1]
      s1 == [s EXCEPT
               !.objects = [i \in 1..Len(state) |-> WithImageElement(state[i], "restore")],
               !.selectedObjects = [k \in 1..Len(@) |-> Detach(s, @[k])],
               !.connectingFrom = Detach(s, @),
               !.editingTextObject = Detach(s, @),
               !.resizeObject = Detach(s, @)]
  IN saveCanvasData(s1)

\* CanvasEditor.restoreState
restoreState(s) ==
  LET state == s.history[s.historyIndex + 1]
      s1 == [s EXCEPT
               !.objects = [i \in 1..Len(state) |-> WithImageElement(state[i], "restore")],
               !.selectedObjects = <<>>,
               !.connectingFrom = Detach(s, @),
               !.editingTextObject = Detach(s, @),
               !.resizeObject = Detach(s, @)]
  IN saveCanvasData(s1)

\* An undo that goes back two entries where it can.
undo_TwoSteps(s) ==
  IF s.historyIndex > 0
  THEN restoreState([s EXCEPT !.historyIndex =
                       IF s.historyIndex > 1 THEN s.historyIndex - 2 ELSE 0])
  ELSE s

\* CanvasEditor.undo
undo(s) ==
  IF s.historyIndex > 0
  THEN restoreState([s EXCEPT !.historyIndex = s.historyIndex - 1])
  ELSE s

\* A redo that goes to the oldest entry from the newest one.
redo_Wrap(s) ==
  IF s.historyIndex < Len(s.history) - 1
  THEN restoreState([s EXCEPT !.historyIndex = s.historyIndex + 1])
  ELSE restoreState([s EXCEPT !.historyIndex = 0])

\* CanvasEditor.redo
redo(s) ==
  IF s.historyIndex < Len(s.history) - 1
  THEN restoreState([s EXCEPT !.historyIndex = s.historyIndex + 1])
  ELSE s

\* ------------------------------------------------------------ page loading

\* A loadFromPage that leaves the history as it is.
loadFromPage_KeepHistory(s, p) ==
  LET data == IF p # "none" /\ s.canvasData[p].present THEN s.canvasData[p].objs ELSE <<>>
      loaded == [i \in 1..Len(data) |-> WithImageElement(data[i], "load")]
  IN saveState([s EXCEPT !.objects = loaded,
                         !.objectIdCounter = SeqMax(Ids(loaded)),
                         !.selectedObjects = <<>>,
                         !.connectingFrom = Detach(s, @),
                         !.editingTextObject = Detach(s, @),
               !.resizeObject = Detach(s, @)])

\* CanvasEditor.loadFromPage: the objects of page.canvasData themselves become
\* the live objects (and get their image handles) until saveState stores
\* clones of them back in the page.
loadFromPage(s, p) ==
  LET data == IF p # "none" /\ s.canvasData[p].present THEN s.canvasData[p].objs ELSE <<>>
      loaded == [i \in 1..Len(data) |-> WithImageElement(data[i], "load")]
      s1 == [s EXCEPT
               !.objects = loaded,
               !.objectIdCounter = SeqMax(Ids(loaded)),
               !.selectedObjects = <<>>,
               !.connectingFrom = Detach(s, @),
               !.editingTextObject = Detach(s, @),
               !.resizeObject = Detach(s, @),
               !.history = <<>>,
               !.historyIndex = -1]
      s2 == IF p # "none" /\ s.canvasData[p].present
            THEN [s1 EXCEPT !.canvasData[p].objs = loaded]
            ELSE s1
  IN saveState(s2)

\* HackNote.selectPage of a canvas page: setPageType(type, false) loads the
\* page content, and selectPage loads it once more.
selectPage(s, p) ==
  LET s1 == [s EXCEPT !.currentPage = p]
  IN [loadFromPage(loadFromPage(s1, p), p) EXCEPT !.nCommits = s.nCommits]

\* ------------------------------------------------------- object management

\* CanvasEditor.addObject
addObject(s, obj) ==
  LET id == s.objectIdCounter + 1
      s1 == [s EXCEPT !.objectIdCounter = id,
                      !.objects = Append(@, [obj EXCEPT !.id = id]),
                      !.reused = @ \/ id \in s.issued[s.currentPage],
                      !.issued[s.currentPage] = @ \cup {id}]
  IN saveState(s1)

\* ---------------------------------------------------------------- selection

\* The positions of the live list the references of a selection point at.
LiveIdx(sel) == {sel[k].idx : k \in 1..Len(sel)} \ {0}

\* array.includes(obj): membership by identity.
Includes(sel, r) == \E k \in 1..Len(sel) : sel[k] = r

\* An assignment through every reference of the selection: F is applied to
\* the objects the selection refers to, wherever they are.
MutateSelected(s, F(_)) ==
  LET sel == s.selectedObjects
  IN [s EXCEPT
        !.objects = [i \in 1..Len(s.objects) |->
                       IF i \in LiveIdx(sel) THEN F(s.objects[i]) ELSE s.objects[i]],
        !.selectedObjects = [k \in 1..Len(sel) |->
                       IF sel[k].idx = 0 THEN DetachedRef(F(sel[k].det[1])) ELSE sel[k]]]

\* CanvasEditor.selectAll
selectAll(s) ==
  [s EXCEPT !.selectedObjects = [i \in 1..Len(s.objects) |-> LiveRef(i)]]

\* CanvasEditor.deselectAll
deselectAll(s) == [s EXCEPT !.selectedObjects = <<>>]

\* A deleteSelected that leaves the connectors of the removed objects.
deleteSelected_NoCascade(s) ==
  IF s.selectedObjects = <<>> THEN s
  ELSE LET sel == s.selectedObjects
           keep == [i \in 1..Len(s.objects) |-> i \notin LiveIdx(sel)]
       IN saveState([s EXCEPT !.objects = Filter(s.objects, keep),
                              !.selectedObjects = <<>>,
                              !.connectingFrom = Rebind(s, @, keep),
                              !.editingTextObject = Rebind(s, @, keep),
               !.resizeObject = Rebind(s, @, keep)])

\* CanvasEditor.deleteSelected
deleteSelected(s) ==
  IF s.selectedObjects = <<>> THEN s
  ELSE LET sel == s.selectedObjects
           deletedIds == {Deref(s, sel[k]).id : k \in 1..Len(sel)}
           keep == [i \in 1..Len(s.objects) |->
                      /\ i \notin LiveIdx(sel)
                      /\ ~ /\ s.objects[i].type = "connector"
                           /\ \/ s.objects[i].fromId \in deletedIds
                              \/ s.objects[i].toId \in deletedIds]
       IN saveState([s EXCEPT !.objects = Filter(s.objects, keep),
                              !.selectedObjects = <<>>,
                              !.connectingFrom = Rebind(s, @, keep),
                              !.editingTextObject = Rebind(s, @, keep),
               !.resizeObject = Rebind(s, @, keep)])

\* An updateSelectedObjects that takes no snapshot.
updateSelectedObjects_NoSave(s, w) ==
  LET SetWidth(o) == [o EXCEPT !.strokeWidth = w]
  IN MutateSelected([s EXCEPT !.strokeWidth = w], SetWidth)

\* CanvasEditor.updateSelectedObjects('strokeWidth', w), after the listener of
\* #canvasStrokeWidth has stored w in the editor.
updateSelectedObjects(s, w) ==
  LET SetWidth(o) == [o EXCEPT !.strokeWidth = w]
      s1 == MutateSelected([s EXCEPT !.strokeWidth = w], SetWidth)
  IN IF Len(s.selectedObjects) > 0 THEN saveState(s1) ELSE s1

\* CanvasEditor.clearAll, confirmed in the modal.
clearAll(s) ==
  IF s.objects = <<>> THEN s
  ELSE saveState([s EXCEPT !.objects = <<>>, !.selectedObjects = <<>>,
                           !.connectingFrom = Detach(s, @),
                           !.editingTextObject = Detach(s, @),
               !.resizeObject = Detach(s, @)])

\* CanvasEditor.selectTool
selectTool(s, t) == [s EXCEPT !.currentTool = t]

\* ------------------------------------------------------------- hit testing

\* CanvasEditor.isPointInObject can hold of object i for some pointer position:
\* a connector with a missing end is hit nowhere.
Hittable(s, i) ==
  s.objects[i].type = "connector" =>
    /\ \E j \in 1..Len(s.objects) : s.objects[j].id = s.objects[i].fromId
    /\ \E j \in 1..Len(s.objects) : s.objects[j].id = s.objects[i].toId

\* CanvasEditor.findObjectAt: the outcomes of a hit test, 0 for no object.
Hits(s) == {0} \cup {i \in 1..Len(s.objects) : Hittable(s, i)}

\* -------------------------------------------------------------------- text

\* CanvasEditor.showTextInput
showTextInput(s, x, y) ==
  [s EXCEPT !.textInputOpen = TRUE, !.textFocused = FALSE, !.textX = x,
            !.textY = y, !.editingTextObject = NullRef]

\* CanvasEditor.editTextObject
editTextObject(s, i) ==
  [s EXCEPT !.textInputOpen = TRUE, !.textFocused = FALSE,
            !.textX = s.objects[i].x, !.textY = s.objects[i].y,
            !.editingTextObject = LiveRef(i)]

\* The end of finalizeText and of the Escape handler: the input is hidden and
\* emptied.
CloseTextInput(s) ==
  [s EXCEPT !.textInputOpen = FALSE, !.textFocused = FALSE, !.textX = 0,
            !.textY = 0]

\* A finalizeText that adds every non-empty value as a new object.
finalizeText_EditAdds(s, v) ==
  CloseTextInput(
    IF v # ""
    THEN addObject([s EXCEPT !.editingTextObject = NullRef],
                   TextObject(s.textX, s.textY, v))
    ELSE [s EXCEPT !.editingTextObject = NullRef])

\* A finalizeText that commits a new text object whatever was typed.
finalizeText_AnyText(s, v) ==
  LET e == s.editingTextObject
  IN CloseTextInput(
       IF ~IsNull(e)
       THEN IF v # ""
            THEN saveState([s EXCEPT
                   !.objects = IF e.idx > 0 THEN [@ EXCEPT ![e.idx].text = v] ELSE @,
                   !.editingTextObject = NullRef])
            ELSE LET keep == [i \in 1..Len(s.objects) |-> i # e.idx]
                     sel == s.selectedObjects
                     selKeep == [k \in 1..Len(sel) |-> sel[k] # e]
                     sel2 == Filter(sel, selKeep)
                 IN saveState([s EXCEPT
                      !.objects = Filter(s.objects, keep),
                      !.selectedObjects = [k \in 1..Len(sel2) |-> Rebind(s, sel2[k], keep)],
                      !.connectingFrom = Rebind(s, @, keep),
                      !.resizeObject = Rebind(s, @, keep),
                      !.editingTextObject = NullRef])
       ELSE addObject(s, TextObject(s.textX, s.textY, v)))

\* CanvasEditor.finalizeText with the trimmed value v of the input.
finalizeText(s, v) ==
  LET e == s.editingTextObject
  IN CloseTextInput(
       IF ~IsNull(e)
       THEN IF v # ""
            THEN saveState([s EXCEPT
                   !.objects = IF e.idx > 0 THEN [@ EXCEPT ![e.idx].text = v] ELSE @,
                   !.editingTextObject = NullRef])
            ELSE LET keep == [i \in 1..Len(s.objects) |-> i # e.idx]
                     sel == s.selectedObjects
                     selKeep == [k \in 1..Len(sel) |-> sel[k] # e]
                     sel2 == Filter(sel, selKeep)
                 IN saveState([s EXCEPT
                      !.objects = Filter(s.objects, keep),
                      !.selectedObjects = [k \in 1..Len(sel2) |-> Rebind(s, sel2[k], keep)],
                      !.connectingFrom = Rebind(s, @, keep),
                      !.resizeObject = Rebind(s, @, keep),
                      !.editingTextObject = NullRef])
       ELSE IF v # "" THEN addObject(s, TextObject(s.textX, s.textY, v)) ELSE s)

\* ----------------------------------------------------------------- pointer

Abs(v) == IF v < 0 THEN -v ELSE v

Max(a, b) == IF a > b THEN a ELSE b

\* v / 2 for the even v the model meets: the pointer travels an even distance
\* on each axis when it draws or resizes an ellipse.
Half(v) == v \div 2

\* handleSelectDown stores the position of each selected object in it.
StartDrag(o) ==
  [o EXCEPT !.dsk = IF o.xk = "absent" THEN "undefined" ELSE o.xk, !.ds = o.x,
            !.dsy = o.y]

\* onMouseMove while dragging: obj.x = (obj._dragStartX || obj.x) + dx, and
\* the same for y.
DragTo(o, dx, dy) ==
  LET k == IF Falsy(o.dsk, o.ds) THEN o.xk ELSE o.dsk
      v == IF Falsy(o.dsk, o.ds) THEN o.x ELSE o.ds
      ky == IF Falsy(o.dsk, o.dsy) THEN o.xk ELSE o.dsk
      vy == IF Falsy(o.dsk, o.dsy) THEN o.y ELSE o.dsy
  IN [o EXCEPT !.xk = PlusKind(k), !.x = PlusVal(k, v, dx), !.y = PlusVal(ky, vy, dy)]

\* onMouseUp after a drag deletes the stored positions.
EndDrag(o) == [o EXCEPT !.dsk = "absent", !.ds = 0, !.dsy = 0]

\* CanvasEditor.isResizable
isResizable(o) == o.type \in {"rect", "image", "ellipse", "text"}

\* CanvasEditor.getObjectBounds of a rect, an image, an ellipse or a line.
getObjectBounds(o) ==
  CASE o.type \in {"rect", "image"} -> Bounds(o.x, o.y, o.width, o.height)
    [] o.type = "ellipse" ->
         Bounds(o.x - o.radiusX, o.y - o.radiusY, o.radiusX * 2, o.radiusY * 2)
    [] o.type = "line" ->
         Bounds(IF o.x < o.x2 THEN o.x ELSE o.x2, IF o.y < o.y2 THEN o.y ELSE o.y2,
                Abs(o.x2 - o.x), Abs(o.y2 - o.y))

Handles == {"nw", "ne", "sw", "se"}

\* No resize handle is under the pointer.
NoGrab == <<0, "none">>

\* CanvasEditor.findResizeHandle: the outcomes of the search, <<k, handle>>
\* for a handle of the k-th selected object.  The handles of a text object
\* scale its font size, which the model does not keep: the user presses on
\* the handles of rects, images and ellipses only.
Grabs(s, handles) ==
  {NoGrab} \cup
  {<<k, h>> : k \in {k \in 1..Len(s.selectedObjects) :
                       LET o == Deref(s, s.selectedObjects[k])
                       IN isResizable(o) /\ o.type # "text"},
              h \in handles}

\* CanvasEditor.handleSelectDown at (x, y): grab is the outcome of
\* findResizeHandle and hit that of findObjectAt, the position of the object
\* in the live list (0: empty space).
handleSelectDown(s, hit, grab, x, y, shift) ==
  IF grab # NoGrab
  THEN LET obj == Deref(s, s.selectedObjects[grab[1]])
           bounds == getObjectBounds(obj)
       IN [s EXCEPT !.isResizing = TRUE,
                    !.resizeHandle = grab[2],
                    !.resizeObject = s.selectedObjects[grab[1]],
                    !.resizeStart = [x |-> obj.x, y |-> obj.y,
                                     width |-> bounds.width, height |-> bounds.height,
                                     mouseX |-> x, mouseY |-> y]]
  ELSE IF hit > 0
  THEN LET clicked == LiveRef(hit)
           s1 == IF ~shift /\ ~Includes(s.selectedObjects, clicked)
                 THEN deselectAll(s) ELSE s
           s2 == IF ~Includes(s1.selectedObjects, clicked)
                 THEN [s1 EXCEPT !.selectedObjects = Append(@, clicked)] ELSE s1
       IN MutateSelected([s2 EXCEPT !.isDragging = TRUE], StartDrag)
  ELSE IF ~shift THEN deselectAll(s) ELSE s

\* The rect and image branch of handleResize without the lower limit.
ResizeBox_NoClamp(obj, start, handle, dx, dy) ==
  CASE handle = "se" ->
         [obj EXCEPT !.width = start.width + dx, !.height = start.height + dy]
    [] handle = "sw" ->
         LET newWidthSW == start.width - dx
         IN [obj EXCEPT !.x = start.x + (start.width - newWidthSW),
                        !.width = newWidthSW,
                        !.height = start.height + dy]
    [] handle = "ne" ->
         LET newHeightNE == start.height - dy
         IN [obj EXCEPT !.width = start.width + dx,
                        !.y = start.y + (start.height - newHeightNE),
                        !.height = newHeightNE]
    [] handle = "nw" ->
         LET newWidthNW == start.width - dx
             newHeightNW == start.height - dy
         IN [obj EXCEPT !.x = start.x + (start.width - newWidthNW),
                        !.y = start.y + (start.height - newHeightNW),
                        !.width = newWidthNW,
                        !.height = newHeightNW]
    [] OTHER -> obj

\* The rect and image branch of handleResize that leaves x and y alone.
ResizeBox_KeepOrigin(obj, start, handle, dx, dy) ==
  CASE handle = "se" ->
         [obj EXCEPT !.width = Max(minSize, start.width + dx),
                     !.height = Max(minSize, start.height + dy)]
    [] handle = "sw" ->
         [obj EXCEPT !.width = Max(minSize, start.width - dx),
                     !.height = Max(minSize, start.height + dy)]
    [] handle = "ne" ->
         [obj EXCEPT !.width = Max(minSize, start.width + dx),
                     !.height = Max(minSize, start.height - dy)]
    [] handle = "nw" ->
         [obj EXCEPT !.width = Max(minSize, start.width - dx),
                     !.height = Max(minSize, start.height - dy)]
    [] OTHER -> obj

\* CanvasEditor.handleResize, the branch of a rect or an image.
ResizeBox(obj, start, handle, dx, dy) ==
  CASE handle = "se" ->
         [obj EXCEPT !.width = Max(minSize, start.width + dx),
                     !.height = Max(minSize, start.height + dy)]
    [] handle = "sw" ->
         LET newWidthSW == Max(minSize, start.width - dx)
         IN [obj EXCEPT !.x = start.x + (start.width - newWidthSW),
                        !.width = newWidthSW,
                        !.height = Max(minSize, start.height + dy)]
    [] handle = "ne" ->
         LET newHeightNE == Max(minSize, start.height - dy)
         IN [obj EXCEPT !.width = Max(minSize, start.width + dx),
                        !.y = start.y + (start.height - newHeightNE),
                        !.height = newHeightNE]
    [] handle = "nw" ->
         LET newWidthNW == Max(minSize, start.width - dx)
             newHeightNW == Max(minSize, start.height - dy)
         IN [obj EXCEPT !.x = start.x + (start.width - newWidthNW),
                        !.y = start.y + (start.height - newHeightNW),
                        !.width = newWidthNW,
                        !.height = newHeightNW]
    [] OTHER -> obj

\* CanvasEditor.handleResize, the branch of an ellipse.
ResizeEllipse(obj, start, handle, dx, dy) ==
  LET startRadiusX == Half(start.width)
      startRadiusY == Half(start.height)
      sx == IF handle \in {"se", "ne"} THEN 1 ELSE -1
      sy == IF handle \in {"se", "sw"} THEN 1 ELSE -1
  IN IF handle \in Handles
     THEN [obj EXCEPT !.radiusX = Max(minRadius, startRadiusX + sx * Half(dx)),
                      !.radiusY = Max(minRadius, startRadiusY + sy * Half(dy))]
     ELSE obj

\* CanvasEditor.handleResize with the pointer at (x, y): the object
\* resizeObject refers to is changed where it is.
handleResize(s, x, y) ==
  LET obj == Deref(s, s.resizeObject)
      start == s.resizeStart
      dx == x - start.mouseX
      dy == y - start.mouseY
      new == IF obj.type = "ellipse"
             THEN ResizeEllipse(obj, start, s.resizeHandle, dx, dy)
             ELSE ResizeBox(obj, start, s.resizeHandle, dx, dy)
  IN IF s.resizeObject.idx > 0
     THEN [s EXCEPT !.objects[s.resizeObject.idx] = new]
     ELSE [s EXCEPT !.resizeObject = DetachedRef(new)]

\* CanvasEditor.finalizeResize
finalizeResize(s) ==
  saveState([s EXCEPT !.isResizing = FALSE, !.resizeHandle = "none",
                      !.resizeObject = NullRef, !.resizeStart = NoStart])

\* CanvasEditor.handleConnectDown
handleConnectDown(s, hit, x, y) ==
  IF hit > 0 /\ s.objects[hit].type # "connector"
  THEN [s EXCEPT !.connectingFrom = LiveRef(hit), !.connectingPreview = <<Point(x, y)>>]
  ELSE s

\* CanvasEditor.handleConnectUp
handleConnectUp(s, hit) ==
  IF IsNull(s.connectingFrom) THEN s
  ELSE LET s1 == IF /\ hit > 0
                    /\ LiveRef(hit) # s.connectingFrom
                    /\ s.objects[hit].type # "connector"
                 THEN addObject(s, ConnectorObject(Deref(s, s.connectingFrom).id,
                                                   s.objects[hit].id, s.strokeWidth))
                 ELSE s
       IN [s1 EXCEPT !.connectingFrom = NullRef, !.connectingPreview = <<>>]

\* CanvasEditor.onMouseDown with the left button at canvas point (x, y), the
\* handle search giving grab and the hit test giving hit; v is the trimmed
\* value of the text input if it is open.  The searches are made after the
\* open text input is finalized: hit and grab are outcomes on the state
\* BeforeMouseDown(s, v) leaves.
BeforeMouseDown(s, v) == IF s.textInputOpen THEN finalizeText(s, v) ELSE s

onMouseDown(s, hit, grab, x, y, shift, v) ==
  LET s0 == BeforeMouseDown(s, v)
      s1 == [s0 EXCEPT !.startX = x, !.startY = y]
  IN IF s.textInputOpen /\ s.currentTool # "text" THEN s0
     ELSE CASE s.currentTool = "select" -> handleSelectDown(s1, hit, grab, x, y, shift)
            [] s.currentTool = "draw" ->
                 [s1 EXCEPT !.isDrawing = TRUE, !.currentPath = <<Point(x, y)>>]
            [] s.currentTool \in {"line", "rect", "ellipse"} ->
                 [s1 EXCEPT !.isDrawing = TRUE]
            [] s.currentTool = "text" -> showTextInput(s1, x, y)
            [] s.currentTool = "connect" -> handleConnectDown(s1, hit, x, y)
            [] OTHER -> s1

\* CanvasEditor.onMouseMove to canvas point (x, y), the viewport not being
\* panned.
onMouseMove(s, x, y) ==
  IF s.isResizing /\ ~IsNull(s.resizeObject) THEN handleResize(s, x, y)
  ELSE IF s.isDragging /\ Len(s.selectedObjects) > 0
  THEN LET Move(o) == DragTo(o, x - s.startX, y - s.startY) IN MutateSelected(s, Move)
  ELSE LET s1 == IF s.isDrawing /\ s.currentTool = "draw"
                 THEN [s EXCEPT !.currentPath = Append(@, Point(x, y))]
                 ELSE s
       IN IF ~IsNull(s.connectingFrom)
          THEN [s1 EXCEPT !.connectingPreview = <<Point(x, y)>>]
          ELSE s1

\* A finishDrawing whose rect tool asks one axis only to exceed the minimum.
finishDrawing_EitherAxis(s, x, y) ==
  LET s1 == [s EXCEPT !.isDrawing = FALSE]
      rw == x - s.startX
      rh == y - s.startY
  IN CASE s.currentTool = "draw" ->
            [(IF Len(s.currentPath) > 1
              THEN addObject(s1, PathObject(s.currentPath, s.strokeWidth))
              ELSE s1) EXCEPT !.currentPath = <<>>]
       [] s.currentTool = "line" ->
            IF Abs(x - s.startX) > minDrag \/ Abs(y - s.startY) > minDrag
            THEN addObject(s1, LineObject(s.startX, s.startY, x, y, s.strokeWidth))
            ELSE s1
       [] s.currentTool = "rect" ->
            IF Abs(rw) > minDrag \/ Abs(rh) > minDrag
            THEN addObject(s1, RectObject(IF rw > 0 THEN s.startX ELSE x,
                                          IF rh > 0 THEN s.startY ELSE y,
                                          Abs(rw), Abs(rh), s.strokeWidth))
            ELSE s1
       [] s.currentTool = "ellipse" ->
            IF Abs(rw) > minDrag /\ Abs(rh) > minDrag
            THEN addObject(s1, EllipseObject(s.startX + Half(rw), s.startY + Half(rh),
                                             Abs(Half(rw)), Abs(Half(rh)),
                                             s.strokeWidth))
            ELSE s1
       [] OTHER -> s1

\* A finishDrawing that commits a path of one point.
finishDrawing_OnePoint(s, x, y) ==
  LET s1 == [s EXCEPT !.isDrawing = FALSE]
      rw == x - s.startX
      rh == y - s.startY
  IN CASE s.currentTool = "draw" ->
            [(IF Len(s.currentPath) > 0
              THEN addObject(s1, PathObject(s.currentPath, s.strokeWidth))
              ELSE s1) EXCEPT !.currentPath = <<>>]
       [] s.currentTool = "line" ->
            IF Abs(x - s.startX) > minDrag \/ Abs(y - s.startY) > minDrag
            THEN addObject(s1, LineObject(s.startX, s.startY, x, y, s.strokeWidth))
            ELSE s1
       [] s.currentTool = "rect" ->
            IF Abs(rw) > minDrag /\ Abs(rh) > minDrag
            THEN addObject(s1, RectObject(IF rw > 0 THEN s.startX ELSE x,
                                          IF rh > 0 THEN s.startY ELSE y,
                                          Abs(rw), Abs(rh), s.strokeWidth))
            ELSE s1
       [] s.currentTool = "ellipse" ->
            IF Abs(rw) > minDrag /\ Abs(rh) > minDrag
            THEN addObject(s1, EllipseObject(s.startX + Half(rw), s.startY + Half(rh),
                                             Abs(Half(rw)), Abs(Half(rh)),
                                             s.strokeWidth))
            ELSE s1
       [] OTHER -> s1

\* CanvasEditor.onMouseUp, the isDrawing branch: the pointer goes up at (x, y).
finishDrawing(s, x, y) ==
  LET s1 == [s EXCEPT !.isDrawing = FALSE]
      rw == x - s.startX
      rh == y - s.startY
  IN CASE s.currentTool = "draw" ->
            [(IF Len(s.currentPath) > 1
              THEN addObject(s1, PathObject(s.currentPath, s.strokeWidth))
              ELSE s1) EXCEPT !.currentPath = <<>>]
       [] s.currentTool = "line" ->
            IF Abs(x - s.startX) > minDrag \/ Abs(y - s.startY) > minDrag
            THEN addObject(s1, LineObject(s.startX, s.startY, x, y, s.strokeWidth))
            ELSE s1
       [] s.currentTool = "rect" ->
            IF Abs(rw) > minDrag /\ Abs(rh) > minDrag
            THEN addObject(s1, RectObject(IF rw > 0 THEN s.startX ELSE x,
                                          IF rh > 0 THEN s.startY ELSE y,
                                          Abs(rw), Abs(rh), s.strokeWidth))
            ELSE s1
       [] s.currentTool = "ellipse" ->
            IF Abs(rw) > minDrag /\ Abs(rh) > minDrag
            THEN addObject(s1, EllipseObject(s.startX + Half(rw), s.startY + Half(rh),
                                             Abs(Half(rw)), Abs(Half(rh)),
                                             s.strokeWidth))
            ELSE s1
       [] OTHER -> s1

\* CanvasEditor.onMouseUp at canvas point (x, y), the hit test giving hit and
\* the viewport not being panned.
onMouseUp(s, hit, x, y) ==
  IF ~IsNull(s.connectingFrom) THEN handleConnectUp(s, hit)
  ELSE IF s.isResizing THEN finalizeResize(s)
  ELSE IF s.isDragging
  THEN saveState(MutateSelected([s EXCEPT !.isDragging = FALSE], EndDrag))
  ELSE IF s.isDrawing THEN finishDrawing(s, x, y)
  ELSE s

\* ------------------------------------------------------------------ images

\* The files the user picks in the file dialog: none, a file that is not an
\* image, an image above the size limit, an image within it.
FileKinds == {"none", "text", "big", "image"}

\* The picture the user uploads on each page, as a data URL.
PictureOf == [p \in Pages |-> IF p = "p1" THEN "f1" ELSE "f2"]

\* A handleImageUpload without the size limit.
handleImageUpload_NoSizeCheck(s, kind, dataUrl) ==
  IF kind \in {"big", "image"}
  THEN [s EXCEPT !.pendingImages = Append(@, dataUrl)]
  ELSE s

\* CanvasEditor.handleImageUpload of a file of the given kind: an image file
\* within the size limit is read and loadImage starts to decode its data URL.
handleImageUpload(s, kind, dataUrl) ==
  IF kind = "none" THEN s
  ELSE IF kind = "text" THEN [s EXCEPT !.notice.console = "Invalid file type"]
  ELSE IF kind = "big" THEN [s EXCEPT !.notice.modal = "IMAGE TOO LARGE"]
  ELSE [s EXCEPT !.pendingImages = Append(@, dataUrl)]

\* ------------------------------------------------------------ bookkeeping

\* The serialized form of a scene: what saveState stores of it.
Ser(objs) == Stringify(getObjects(objs))

Void == [phase |-> "void", n |-> 0, u |-> 0, r |-> 0, base |-> <<>>, final |-> <<>>]

\* A page load starts a run: n commits, then u calls of undo, then r calls of
\* redo; base is the loaded scene and final the scene the n commits left.
SymLoad(s2) == [Void EXCEPT !.phase = "commit", !.base = Ser(s2.objects)]

SymNext(op, s, s2) ==
  IF op = "undo"
  THEN IF sym.phase \in {"commit", "undo"} /\ sym.u < sym.n
       THEN [sym EXCEPT !.phase = "undo", !.u = @ + 1,
                        !.final = IF sym.phase = "commit"
                                  THEN s.history[Len(s.history)] ELSE @]
       ELSE Void
  ELSE IF op = "redo"
  THEN IF sym.phase \in {"undo", "redo"} /\ sym.u = sym.n /\ sym.r < sym.n
       THEN [sym EXCEPT !.phase = "redo", !.r = @ + 1]
       ELSE Void
  ELSE IF s2.nCommits > s.nCommits
  THEN IF sym.phase = "commit"
       THEN [sym EXCEPT !.n = @ + (s2.nCommits - s.nCommits)]
       ELSE Void
  ELSE sym

\* The state a handler leaves stays within the bounds of the model.
Within(s2, budget, range) ==
  /\ s2.nCommits <= budget
  /\ Len(s2.objects) <= MaxObjects
  /\ Len(s2.currentPath) <= MaxPoints
  /\ \A i \in 1..Len(s2.objects) :
       s2.objects[i].xk = "num" => (s2.objects[i].x \in range /\ s2.objects[i].y \in range)

\* The handlers lastOp names, when they change something (undo and redo also
\* when they find nothing to do: info is then "noop"; handleImageUpload when
\* it turns the file down: info is then "rejected"), and the pointer events
\* that start a drag or a resize, resize an object or end the drawing of a
\* shape, with the place of the pointer.
TrackedOps == {"deleteSelected", "undo", "redo", "selectPage", "imageUpload",
               "mouseDown", "mouseMove", "mouseUp", "enterText", "escapeText",
               "blurText", "lateBlur", "imageOnload", "clearAll"}

NoOp == [op |-> "other", info |-> "", cut |-> FALSE, at |-> Point(0, 0), hit |-> 0]

\* The pointer positions on the diagonal over the given coordinates.
Diagonal(cs) == {Point(c, c) : c \in cs}

\* The environment of a specification: how many commits a session makes,
\* whether it keeps the bookkeeping of runs, whether the user finishes a
\* pointer gesture or a text entry before doing anything else, the tools the
\* user picks, and whether the user opens one page only, edits at the newest
\* history entry only and uploads an image onto an empty canvas only.  A
\* strict user also moves the stroke width slider for a selection only.  The
\* pointer goes down, moves and goes up at the points downs, moves and ups;
\* the user presses on the resize handles named, keeps the objects within
\* range, and presses on objects or on the empty canvas and handles only.
MainEnv == [budget |-> MaxCommits, track |-> FALSE, strict |-> TRUE,
            tools |-> Tools, linear |-> FALSE, downs |-> Diagonal(DownCoords),
            moves |-> Diagonal(MoveCoords), ups |-> Diagonal(Coords),
            handles |-> {}, range |-> 0..Far,
            press |-> TRUE, watch |-> {},
            geometry |-> FALSE, shifts |-> Shifts,
  canvas |-> {PictureCanvas}, pictures |-> {PictureSize}, chord |-> FALSE]

HistEnv == [budget |-> HistCommits, track |-> TRUE, strict |-> TRUE,
            tools |-> {"select", "image"}, linear |-> TRUE,
            downs |-> Diagonal(DownCoords), moves |-> Diagonal(MoveCoords),
            ups |-> Diagonal(Coords), handles |-> {}, range |-> 0..Far,
            press |-> TRUE, watch |-> {},
            geometry |-> FALSE, shifts |-> Shifts,
  canvas |-> {PictureCanvas}, pictures |-> {PictureSize}, chord |-> FALSE]

\* A user who does not wait for an image to be decoded.
RaceEnv == [budget |-> MaxCommits, track |-> FALSE, strict |-> FALSE,
            tools |-> {"select", "image"}, linear |-> FALSE,
            downs |-> Diagonal(DownCoords), moves |-> Diagonal(MoveCoords),
            ups |-> Diagonal(Coords), handles |-> {}, range |-> 0..Far,
            press |-> TRUE, watch |-> {},
            geometry |-> FALSE, shifts |-> Shifts,
  canvas |-> {PictureCanvas}, pictures |-> {PictureSize}, chord |-> FALSE]

\* A user who opens one page and edits nothing.
ViewEnv == [budget |-> 0, track |-> FALSE, strict |-> TRUE, tools |-> {},
            linear |-> TRUE, downs |-> Diagonal(DownCoords),
            moves |-> Diagonal(MoveCoords), ups |-> Diagonal(Coords),
            handles |-> {}, range |-> 0..Far,
            press |-> TRUE, watch |-> {},
            geometry |-> FALSE, shifts |-> Shifts,
  canvas |-> {PictureCanvas}, pictures |-> {PictureSize}, chord |-> FALSE]

\* The points of the shape sessions: the pointer goes down at the origin and
\* travels less than the minimum drag, far enough on one axis only, far enough
\* for a small shape, or far, in either direction.
ShapeDowns == {Point(0, 0)}

ShapeMoves == {Point(4, 4), Point(30, 30), Point(-30, -30), Point(-30, 4)}

ShapeUps == {Point(2, 2), Point(4, 0), Point(4, 4), Point(30, 30)}

\* A user who draws lines, rects and ellipses on one page, selects with
\* Ctrl+A and resizes the selection by its handles.
ShapeEnv == [budget |-> MaxCommits, track |-> FALSE, strict |-> TRUE,
             tools |-> {"select", "line", "rect", "ellipse"}, linear |-> TRUE,
             downs |-> ShapeDowns, moves |-> ShapeMoves, ups |-> ShapeUps,
             handles |-> Handles, range |-> -60..60,
             press |-> FALSE, watch |-> {},
            geometry |-> FALSE, shifts |-> Shifts,
  canvas |-> {PictureCanvas}, pictures |-> {PictureSize}, chord |-> FALSE]

\* A user who presses a tool shortcut in the middle of a pointer gesture.
InterruptEnv == [budget |-> MaxCommits, track |-> FALSE, strict |-> FALSE,
                 tools |-> {"select", "draw", "rect", "connect"}, linear |-> TRUE,
                 downs |-> Diagonal(DownCoords), moves |-> Diagonal(MoveCoords),
                 ups |-> Diagonal(Coords), handles |-> Handles, range |-> 0..Far,
                 press |-> TRUE, watch |-> {},
            geometry |-> FALSE, shifts |-> Shifts,
  canvas |-> {PictureCanvas}, pictures |-> {PictureSize}, chord |-> FALSE]

\* A user who drags objects with the select tool, twice as far as elsewhere.
DragEnv == [budget |-> MaxCommits, track |-> FALSE, strict |-> TRUE,
            tools |-> {"select"}, linear |-> TRUE,
            downs |-> Diagonal(DownCoords), moves |-> Diagonal(MoveCoords),
            ups |-> Diagonal(Coords), handles |-> {}, range |-> 0..(2 * Far),
            press |-> TRUE, watch |-> {},
            geometry |-> FALSE, shifts |-> Shifts,
  canvas |-> {PictureCanvas}, pictures |-> {PictureSize}, chord |-> FALSE]

\* A user who presses Ctrl+Z and Ctrl+Y while a connection is pending and
\* switches tools while the text input is open.
ConnectEnv == [budget |-> MaxCommits, track |-> FALSE, strict |-> FALSE,
               tools |-> {"text", "connect"}, linear |-> TRUE,
               downs |-> Diagonal(DownCoords), moves |-> Diagonal(MoveCoords),
               ups |-> Diagonal(Coords), handles |-> {}, range |-> 0..Far,
               press |-> TRUE, watch |-> {"connect"},
            geometry |-> FALSE, shifts |-> Shifts,
  canvas |-> {PictureCanvas}, pictures |-> {PictureSize}, chord |-> FALSE]

\* A user who types with the text tool on one page; the blur events that
\* follow the handlers are delivered.
TextEnv == [budget |-> MaxCommits, track |-> FALSE, strict |-> TRUE,
            tools |-> {"select", "text"}, linear |-> TRUE,
            downs |-> Diagonal(Coords), moves |-> Diagonal(MoveCoords),
            ups |-> Diagonal(Coords), handles |-> {}, range |-> 0..Far,
            press |-> TRUE, watch |-> {"text", "blur"},
            geometry |-> FALSE, shifts |-> Shifts,
  canvas |-> {PictureCanvas}, pictures |-> {PictureSize}, chord |-> FALSE]

\* A user who draws freehand on one page and may press a tool shortcut in the
\* middle of a stroke.
DrawEnv == [budget |-> MaxCommits, track |-> FALSE, strict |-> FALSE,
            tools |-> {"select", "draw"}, linear |-> TRUE,
            downs |-> Diagonal(DownCoords), moves |-> Diagonal(Coords),
            ups |-> Diagonal(Coords), handles |-> {}, range |-> 0..Far,
            press |-> FALSE, watch |-> {"draw"},
            geometry |-> FALSE, shifts |-> Shifts,
  canvas |-> {PictureCanvas}, pictures |-> {PictureSize}, chord |-> FALSE]

\* The points of the hit-test sessions.
HitDowns == {Point(0, 0), Point(34, 34)}

HitUps == {Point(30, 30), Point(60, 60)}

\* A user who draws rects and ellipses that overlap on the empty page and
\* presses on them with the select tool; what the pointer finds is computed
\* from the geometry of the scene.
HitEnv == [budget |-> MaxCommits, track |-> FALSE, strict |-> TRUE,
           tools |-> {"select", "rect", "ellipse"}, linear |-> TRUE,
           downs |-> HitDowns, moves |-> {}, ups |-> HitUps,
           handles |-> Handles, range |-> -60..60,
           press |-> TRUE, watch |-> {"select"},
           geometry |-> TRUE, shifts |-> Shifts,
  canvas |-> {PictureCanvas}, pictures |-> {PictureSize}, chord |-> FALSE]

\* A user who clicks on the objects of a page with the select tool, with and
\* without the shift key.
SelectEnv == [budget |-> MaxCommits, track |-> FALSE, strict |-> TRUE,
              tools |-> {"select"}, linear |-> TRUE,
              downs |-> Diagonal(DownCoords), moves |-> {},
              ups |-> Diagonal(DownCoords), handles |-> {}, range |-> 0..Far,
              press |-> TRUE, watch |-> {"select"},
              geometry |-> FALSE, shifts |-> BOOLEAN,
  canvas |-> {PictureCanvas}, pictures |-> {PictureSize}, chord |-> FALSE]

\* One step: handler op takes the state to s2.  lastOp.cut tells that the step
\* took a snapshot while the cursor was below the newest history entry;
\* lastOp.at is the pointer's canvas point and lastOp.hit what the handler's
\* hit test found.
DoHit(env, op, s2, eff, info, at, hit) ==
  /\ Within(s2, env.budget, env.range)
  /\ (env.linear /\ s2.nCommits > nCommits) => historyIndex = Len(history) - 1
  /\ Becomes(s2)
  /\ lastOp' = [op |-> IF op \in TrackedOps /\ eff THEN op ELSE "other",
                info |-> IF op \in TrackedOps /\ eff THEN info ELSE "",
                cut |-> s2.nCommits > nCommits /\ historyIndex < Len(history) - 1,
                at |-> IF op \in TrackedOps /\ eff THEN at ELSE Point(0, 0),
                hit |-> IF op \in TrackedOps /\ eff THEN hit ELSE 0]
  /\ sym' = IF env.track
            THEN (IF op = "selectPage" THEN SymLoad(s2) ELSE SymNext(op, St, s2))
            ELSE sym
  /\ UNCHANGED <<viewVars, anchorVars, hostVars>>

DoAt(env, op, s2, eff, info, at) == DoHit(env, op, s2, eff, info, at, 0)

Do(env, op, s2, eff, info) == DoAt(env, op, s2, eff, info, Point(0, 0))

\* The editor exists once a canvas page has been selected.
Loaded == currentPage # "none"

\* No pointer gesture is in progress.
PointerIdle == ~isDrawing /\ ~isDragging /\ ~isResizing /\ IsNull(connectingFrom)

\* A strict environment starts nothing while an image is being decoded, a
\* gesture is in progress or the text input is open.
Calm(env) == env.strict => (PointerIdle /\ ~textInputOpen /\ pendingImages = <<>>)

\* Keyboard shortcuts and clicks outside the canvas reach the editor: the text
\* input does not hold the focus (a click elsewhere first blurs it).  A strict
\* environment also waits for the gesture and the text entry to end.
UiFree(env) ==
  /\ Loaded
  /\ ~(textInputOpen /\ textFocused)
  /\ Calm(env)

TypedValues == Texts \cup {""}

\* The browser sends the input a blur event after a handler that found it
\* focused has hidden it, and after a pointer-down on the canvas.
Blurs(env, s2) ==
  IF "blur" \in env.watch /\ textInputOpen /\ textFocused
  THEN [s2 EXCEPT !.blurDue = TRUE]
  ELSE s2

\* --------------------------------------------------------------- viewport

\* The scale and the offsets are fractions [n, d] in lowest terms with d > 0;
\* the arithmetic on them is exact, where the program rounds each result to the
\* nearest double.
RECURSIVE Gcd(_, _)
Gcd(a, b) == IF b = 0 THEN a ELSE Gcd(b, a % b)

Frac(n, d) ==
  LET g == Gcd(Abs(n), Abs(d))
      sgn == IF d < 0 THEN -1 ELSE 1
  IN [n |-> sgn * (n \div g), d |-> sgn * (d \div g)]

Whole(k) == [n |-> k, d |-> 1]

\* a * b, the common factors cancelled before the products are taken.
Times(a, b) ==
  LET l == Frac(a.n, b.d)
      r == Frac(b.n, a.d)
  IN Frac(l.n * r.n, l.d * r.d)

\* a / b, for b other than 0.
Over(a, b) == Times(a, Frac(b.d, b.n))

\* a - b and a + b over the least common denominator.
Minus(a, b) ==
  LET g == Gcd(a.d, b.d)
  IN Frac(a.n * (b.d \div g) - b.n * (a.d \div g), (a.d \div g) * b.d)

Plus(a, b) ==
  LET g == Gcd(a.d, b.d)
  IN Frac(a.n * (b.d \div g) + b.n * (a.d \div g), (a.d \div g) * b.d)

Leq(a, b) == a.n * b.d <= b.n * a.d

MathMin(a, b) == IF Leq(a, b) THEN a ELSE b

MathMax(a, b) == IF Leq(a, b) THEN b ELSE a

minScale == Frac(1, 10)

maxScale == Whole(5)

\* The viewport as one record.
Vw == [scale |-> scale, offsetX |-> offsetX, offsetY |-> offsetY,
       isPanning |-> isPanning]

\* The canvas coordinate shown at screen coordinate a (screenToCanvas).
screenToCanvas(a, offset, sc) == Over(Minus(a, offset), sc)

\* A canvasToScreen that adds the offset before it scales.
canvasToScreen_OffsetFirst(a, offset, sc) == Times(Plus(a, offset), sc)

\* The screen coordinate that shows canvas coordinate a (canvasToScreen).
canvasToScreen(a, offset, sc) == Plus(Times(a, sc), offset)

\* The coordinates the conversions are tried on, on the screen and on the
\* canvas.
ProbeCoords == {Whole(-7), Whole(0), Whole(1), Frac(1, 3), Whole(100)}

\* An onWheel that leaves the offsets alone.
onWheel_KeepOffset(v, mouseX, mouseY, deltaY) ==
  LET zoomFactor == IF deltaY > 0 THEN Frac(9, 10) ELSE Frac(11, 10)
      newScale == MathMin(MathMax(Times(v.scale, zoomFactor), minScale), maxScale)
  IN [v EXCEPT !.scale = newScale]

onWheel(v, mouseX, mouseY, deltaY) ==
  LET zoomFactor == IF deltaY > 0 THEN Frac(9, 10) ELSE Frac(11, 10)
      newScale == MathMin(MathMax(Times(v.scale, zoomFactor), minScale), maxScale)
      scaleDiff == Over(newScale, v.scale)
  IN [v EXCEPT
        !.offsetX = Minus(Whole(mouseX), Times(Minus(Whole(mouseX), v.offsetX), scaleDiff)),
        !.offsetY = Minus(Whole(mouseY), Times(Minus(Whole(mouseY), v.offsetY), scaleDiff)),
        !.scale = newScale]

\* A zoom that does not clamp the new scale.
zoom_NoClamp(v, factor, width, height) ==
  LET centerX == Frac(width, 2)
      centerY == Frac(height, 2)
      newScale == Times(v.scale, factor)
      scaleDiff == Over(newScale, v.scale)
  IN [v EXCEPT
        !.offsetX = Minus(centerX, Times(Minus(centerX, v.offsetX), scaleDiff)),
        !.offsetY = Minus(centerY, Times(Minus(centerY, v.offsetY), scaleDiff)),
        !.scale = newScale]

\* zoom(factor) on a canvas element of the given size.
zoom(v, factor, width, height) ==
  LET centerX == Frac(width, 2)
      centerY == Frac(height, 2)
      newScale == MathMin(MathMax(Times(v.scale, factor), minScale), maxScale)
      scaleDiff == Over(newScale, v.scale)
  IN [v EXCEPT
        !.offsetX = Minus(centerX, Times(Minus(centerX, v.offsetX), scaleDiff)),
        !.offsetY = Minus(centerY, Times(Minus(centerY, v.offsetY), scaleDiff)),
        !.scale = newScale]

resetZoom(v) ==
  [v EXCEPT !.scale = Whole(1), !.offsetX = Whole(0), !.offsetY = Whole(0)]

\* A pan that moves the offsets by the travel measured on the canvas.
panMove_Scaled(v, dx, dy) ==
  [v EXCEPT !.offsetX = Plus(@, Over(Whole(dx), v.scale)),
            !.offsetY = Plus(@, Over(Whole(dy), v.scale))]

\* onMouseMove while panning: the pointer moved by (dx, dy) on the screen.
panMove(v, dx, dy) ==
  [v EXCEPT !.offsetX = Plus(@, Whole(dx)), !.offsetY = Plus(@, Whole(dy))]

\* A box scaled to fit the width alone.
imageBox_WidthRatio(v, size, natural) ==
  LET centerX == Over(Minus(Frac(size[1], 2), v.offsetX), v.scale)
      centerY == Over(Minus(Frac(size[2], 2), v.offsetY), v.scale)
      ratio == IF natural[1] > maxSize \/ natural[2] > maxSize
               THEN Frac(maxSize, natural[1])
               ELSE Whole(1)
      width == Times(Whole(natural[1]), ratio)
      height == Times(Whole(natural[2]), ratio)
  IN [x |-> Minus(centerX, Over(width, Whole(2))),
      y |-> Minus(centerY, Over(height, Whole(2))),
      width |-> width, height |-> height]

\* The box img.onload of CanvasEditor.loadImage computes for a picture of the
\* natural size <<width, height>>, on a canvas element of the given size seen
\* through viewport v.
imageBox(v, size, natural) ==
  LET centerX == Over(Minus(Frac(size[1], 2), v.offsetX), v.scale)
      centerY == Over(Minus(Frac(size[2], 2), v.offsetY), v.scale)
      ratio == IF natural[1] > maxSize \/ natural[2] > maxSize
               THEN MathMin(Frac(maxSize, natural[1]), Frac(maxSize, natural[2]))
               ELSE Whole(1)
      width == Times(Whole(natural[1]), ratio)
      height == Times(Whole(natural[2]), ratio)
  IN [x |-> Minus(centerX, Over(width, Whole(2))),
      y |-> Minus(centerY, Over(height, Whole(2))),
      width |-> width, height |-> height]

\* The img.onload callback of CanvasEditor.loadImage for the k-th decode in
\* flight.  The model's objects hold whole numbers: the callback is modelled
\* for the pictures and viewports whose box is whole.
loadImageOnload(s, k, v, size, natural) ==
  LET rest == [j \in 1..(Len(s.pendingImages) - 1) |->
                 IF j < k THEN s.pendingImages[j] ELSE s.pendingImages[j + 1]]
      box == imageBox(v, size, natural)
  IN addObject([s EXCEPT !.pendingImages = rest],
               [ImageObject(box.x.n, box.y.n, s.pendingImages[k])
                  EXCEPT !.width = box.width.n, !.height = box.height.n])

WholeBox(box) == box.x.d = 1 /\ box.y.d = 1 /\ box.width.d = 1 /\ box.height.d = 1

\* The zoom in and zoom out buttons.
ButtonFactors == {Frac(6, 5), Frac(4, 5)}

\* The positions of the pointer over the canvas element when the wheel turns.
WheelPoints == {<<0, 0>>, <<100, 50>>}

WheelDeltas == {-100, 100}

\* The size of the canvas element.
CanvasSizes == {<<800, 600>>}

PanDeltas == {<<-7, 3>>}

\* The scales a session starts a series of zoom steps from.  Each is reached
\* from scale 1 with the offsets still 0 by turning the wheel at screen point
\* (0, 0): 17 steps up end at maxScale, 22 steps down at minScale.
StartScales == {minScale, Whole(1), maxScale}

NoView == [op |-> "none", ax |-> Whole(0), ay |-> Whole(0), clamped |-> FALSE, n |-> 0]

\* ------------------------------------------------------ connector anchors

AbsFrac(a) == IF a.n < 0 THEN [a EXCEPT !.n = -a.n] ELSE a

\* A calculateConnectorAnchors that always attaches to the left and right
\* edges.
calculateConnectorAnchors_Sideways(fromB, toB) ==
  LET fromCenter == Point(Plus(Whole(fromB.x), Frac(fromB.width, 2)),
                          Plus(Whole(fromB.y), Frac(fromB.height, 2)))
      toCenter == Point(Plus(Whole(toB.x), Frac(toB.width, 2)),
                        Plus(Whole(toB.y), Frac(toB.height, 2)))
      dx == Minus(toCenter.x, fromCenter.x)
  IN IF dx.n > 0
     THEN [from |-> Point(Whole(fromB.x + fromB.width), fromCenter.y),
           to |-> Point(Whole(toB.x), toCenter.y)]
     ELSE [from |-> Point(Whole(fromB.x), fromCenter.y),
           to |-> Point(Whole(toB.x + toB.width), toCenter.y)]

calculateConnectorAnchors(fromB, toB) ==
  LET fromCenter == Point(Plus(Whole(fromB.x), Frac(fromB.width, 2)),
                          Plus(Whole(fromB.y), Frac(fromB.height, 2)))
      toCenter == Point(Plus(Whole(toB.x), Frac(toB.width, 2)),
                        Plus(Whole(toB.y), Frac(toB.height, 2)))
      dx == Minus(toCenter.x, fromCenter.x)
      dy == Minus(toCenter.y, fromCenter.y)
  IN IF ~Leq(AbsFrac(dx), AbsFrac(dy))
     THEN IF dx.n > 0
          THEN [from |-> Point(Whole(fromB.x + fromB.width), fromCenter.y),
                to |-> Point(Whole(toB.x), toCenter.y)]
          ELSE [from |-> Point(Whole(fromB.x), fromCenter.y),
                to |-> Point(Whole(toB.x + toB.width), toCenter.y)]
     ELSE IF dy.n > 0
          THEN [from |-> Point(fromCenter.x, Whole(fromB.y + fromB.height)),
                to |-> Point(toCenter.x, Whole(toB.y))]
          ELSE [from |-> Point(fromCenter.x, Whole(fromB.y)),
                to |-> Point(toCenter.x, Whole(toB.y + toB.height))]

\* The boxes of the objects a connector joins.
FromBoxes == {Bounds(0, 0, 100, h) : h \in {100, 51}}

ToBoxes ==
  {Bounds(x, y, w, h) : x \in {-300, 0, 40, 300}, y \in {-300, 0, 40, 300},
                        w \in {100, 30}, h \in {100, 30}}

\* ----------------------------------------------------- geometric hit tests

\* CanvasEditor.isPointInObject of a rect, an image or an ellipse at canvas
\* point (x, y), the scale being sc.
isPointInObject(x, y, o, sc) ==
  LET margin == Over(Whole(10), sc)
  IN CASE o.type \in {"rect", "image"} ->
            /\ Leq(Minus(Whole(o.x), margin), Whole(x))
            /\ Leq(Whole(x), Plus(Whole(o.x + o.width), margin))
            /\ Leq(Minus(Whole(o.y), margin), Whole(y))
            /\ Leq(Whole(y), Plus(Whole(o.y + o.height), margin))
       [] o.type = "ellipse" ->
            LET dx == Frac(x - o.x, o.radiusX)
                dy == Frac(y - o.y, o.radiusY)
            IN Leq(Plus(Times(dx, dx), Times(dy, dy)), Frac(3, 2))

\* A findObjectAt that scans the objects from the first to the last.
findObjectAt_BottomFirst(s, x, y, sc) ==
  LET under == {i \in 1..Len(s.objects) : isPointInObject(x, y, s.objects[i], sc)}
  IN IF under = {} THEN 0 ELSE CHOOSE i \in under : \A j \in under : i <= j

\* The loop of findObjectAt from position i of the list down to its start.
RECURSIVE ScanDown(_, _, _, _, _)
ScanDown(s, x, y, sc, i) ==
  IF i = 0 THEN 0
  ELSE IF isPointInObject(x, y, s.objects[i], sc) THEN i
  ELSE ScanDown(s, x, y, sc, i - 1)

\* CanvasEditor.findObjectAt: the position in the list of the object found,
\* 0 for none.
findObjectAt(s, x, y, sc) == ScanDown(s, x, y, sc, Len(s.objects))

\* The handles of findResizeHandle in the order it tries them.
HandleOrder == <<"nw", "ne", "sw", "se">>

\* The place of handle h of an object with the given bounds.
HandlePos(bounds, h, padding) ==
  Point(IF h \in {"nw", "sw"} THEN Minus(Whole(bounds.x), padding)
        ELSE Plus(Whole(bounds.x + bounds.width), padding),
        IF h \in {"nw", "ne"} THEN Minus(Whole(bounds.y), padding)
        ELSE Plus(Whole(bounds.y + bounds.height), padding))

\* The test findResizeHandle makes of handle h of object o.
OnHandle(x, y, o, h, sc) ==
  LET handleSize == Over(Whole(12), sc)
      pos == HandlePos(getObjectBounds(o), h, Over(Whole(5), sc))
      half == Over(handleSize, Whole(2))
  IN /\ ~Leq(half, AbsFrac(Minus(Whole(x), pos.x)))
     /\ ~Leq(half, AbsFrac(Minus(Whole(y), pos.y)))

\* The loop of findResizeHandle from the k-th selected object on.
RECURSIVE ScanSelected(_, _, _, _, _)
ScanSelected(s, x, y, sc, k) ==
  IF k > Len(s.selectedObjects) THEN NoGrab
  ELSE LET o == Deref(s, s.selectedObjects[k])
           on == {j \in 1..Len(HandleOrder) : OnHandle(x, y, o, HandleOrder[j], sc)}
       IN IF isResizable(o) /\ on # {}
          THEN <<k, HandleOrder[CHOOSE j \in on : \A j2 \in on : j <= j2]>>
          ELSE ScanSelected(s, x, y, sc, k + 1)

\* CanvasEditor.findResizeHandle
findResizeHandle(s, x, y, sc) == ScanSelected(s, x, y, sc, 1)

\* ------------------------------------------------------------------- host

\* What GET /api/data answers when the database has no row.
EmptyData == [workspaces |-> <<>>, pages |-> <<>>]

\* The rows the database may hold when the client starts.
StoredRows == {<<>>, <<[workspaces |-> <<"Work">>, pages |-> <<"p1", "p2">>]>>,
               <<[workspaces |-> <<"Work", "Home">>, pages |-> <<"p1">>]>>}

\* The HackNote object.
Host == [workspaces |-> workspaces, pages |-> pages,
         currentWorkspace |-> currentWorkspace, saveTimeout |-> saveTimeout]

\* HackNote.saveData: the pending timer is replaced by one that will post
\* the data.
saveData(h) ==
  [h EXCEPT !.saveTimeout = <<[workspaces |-> h.workspaces, pages |-> h.pages]>>]

\* HackNote.loadData.  result tells how the fetch ended: "ok" with the data
\* the server sent, "notOk" with a response that is not ok (the server's 500),
\* "threw" when fetch rejected (network error).
loadData(h, result, data) ==
  IF result = "threw" THEN h
  ELSE LET h1 == IF result = "ok"
                 THEN [h EXCEPT !.workspaces = data.workspaces, !.pages = data.pages]
                 ELSE h
           h2 == IF Len(h1.workspaces) = 0
                 THEN saveData([h1 EXCEPT !.workspaces = Append(@, "My Workspace")])
                 ELSE h1
       IN [h2 EXCEPT !.currentWorkspace = 1]

\* HackNote.createWorkspace
createWorkspace(h) ==
  saveData([h EXCEPT !.workspaces = Append(@, "New Workspace"),
                     !.currentWorkspace = Len(h.workspaces) + 1])

\* HackNote.createPage
createPage(h) ==
  IF h.currentWorkspace = 0 THEN h
  ELSE saveData([h EXCEPT !.pages = Append(@, "Untitled")])

\* GET /api/data of the server: the stored data, or the empty default.
getData(row) == IF row = <<>> THEN EmptyData ELSE row[1]

\* POST /api/data of the server: db.save(req.body) when saved, the row as it
\* was when db.save threw or the request never arrived.
postData(row, body, saved) == IF saved THEN <<body>> ELSE row

\* ------------------------------------------------------------------- Init

InitEditor ==
  /\ objects = <<>>
  /\ selectedObjects = <<>>
  /\ currentTool = "select"
  /\ isDrawing = FALSE
  /\ isDragging = FALSE
  /\ startX = 0
  /\ startY = 0
  /\ isResizing = FALSE
  /\ resizeHandle = "none"
  /\ resizeObject = NullRef
  /\ resizeStart = NoStart
  /\ currentPath = <<>>
  /\ connectingFrom = NullRef
  /\ connectingPreview = <<>>
  /\ editingTextObject = NullRef
  /\ textInputOpen = FALSE
  /\ textFocused = FALSE
  /\ blurDue = FALSE
  /\ textX = 0
  /\ textY = 0
  /\ strokeWidth = 2
  /\ history = <<>>
  /\ historyIndex = -1
  /\ objectIdCounter = 0
  /\ currentPage = "none"
  /\ canvasData = [p \in Pages |->
       IF p = "p1" THEN [present |-> FALSE, objs |-> <<>>]
       ELSE [present |-> TRUE,
                   objs |-> <<[TextObject(0, 0, "a") EXCEPT !.id = 1],
                        [ImageObject(0, 0, "s1") EXCEPT !.id = 3, !.imageElement = "none"],
                        [ConnectorObject(1, 3, 2) EXCEPT !.id = 4]>>]]
  /\ pendingImages = <<>>
  /\ issued = [p \in Pages |-> {}]
  /\ reused = FALSE
  /\ nCommits = 0
  /\ notice = Quiet
  /\ lastOp = NoOp
  /\ sym = Void

InitView ==
  /\ scale = Whole(1)
  /\ offsetX = Whole(0)
  /\ offsetY = Whole(0)
  /\ isPanning = FALSE
  /\ lastView = NoView

InitAnchors ==
  /\ fromBounds = Bounds(0, 0, 0, 0)
  /\ toBounds = Bounds(0, 0, 0, 0)
  /\ anchors = <<>>

\* HackNote.init has loaded the workspace of the two pages.
InitHost ==
  /\ workspaces = <<"Work">>
  /\ pages = <<"p1", "p2">>
  /\ currentWorkspace = 1
  /\ saveTimeout = <<>>
  /\ appData = <<[workspaces |-> <<"Work">>, pages |-> <<"p1", "p2">>]>>
  /\ loadResult = "ok"

Init == InitEditor /\ InitView /\ InitAnchors /\ InitHost

\* The HackNote constructor has run and init is about to call loadData; the
\* server's database is empty or holds the data of an earlier session.
InitLoad ==
  /\ InitEditor
  /\ InitView
  /\ InitAnchors
  /\ workspaces = <<>>
  /\ pages = <<>>
  /\ currentWorkspace = 0
  /\ saveTimeout = <<>>
  /\ appData \in StoredRows
  /\ loadResult = "none"

\* A connector is about to be drawn between two boxes.
InitBoxes ==
  /\ InitEditor
  /\ InitView
  /\ fromBounds \in FromBoxes
  /\ toBounds \in ToBoxes
  /\ anchors = <<>>
  /\ InitHost

InitZoomed ==
  /\ InitEditor
  /\ scale \in StartScales
  /\ offsetX = Whole(0)
  /\ offsetY = Whole(0)
  /\ isPanning = FALSE
  /\ lastView = NoView
  /\ InitAnchors
  /\ InitHost

\* ---------------------------------------------------------------- actions

SelectPage(env) ==
  \E p \in Pages :
    /\ ~(textInputOpen /\ textFocused)
    /\ Calm(env)
    /\ env.linear => currentPage = "none"
    /\ Do(env, "selectPage", selectPage(St, p), TRUE, "")

SelectTool(env) ==
  \E t \in env.tools :
    /\ UiFree(env)
    /\ t # currentTool
    /\ Do(env, "selectTool", selectTool(St, t), TRUE, "")

\* The pointer has travelled an even distance on each axis from (x0, y0) to p.
EvenTravel(p, x0, y0) == (p.x - x0) % 2 = 0 /\ (p.y - y0) % 2 = 0

\* A handle is searched for by the select tool only.
MouseDown(env) ==
  \E p \in env.downs, shift \in env.shifts, v \in TypedValues :
    /\ Loaded
    /\ ~env.chord => (PointerIdle /\ ~isPanning)
    /\ env.strict => ((textInputOpen => textFocused) /\ pendingImages = <<>>)
    /\ ~textInputOpen => v = ""
    /\ \E hit \in IF env.geometry
                   THEN {findObjectAt(BeforeMouseDown(St, v), p.x, p.y, scale)}
                   ELSE IF env.press THEN Hits(BeforeMouseDown(St, v)) ELSE {0},
          grab \in IF currentTool # "select" THEN {NoGrab}
                   ELSE IF env.geometry
                   THEN {findResizeHandle(BeforeMouseDown(St, v), p.x, p.y, scale)}
                   ELSE Grabs(BeforeMouseDown(St, v), env.handles) :
         LET s2 == Blurs(env, onMouseDown(St, hit, grab, p.x, p.y, shift, v))
         IN DoHit(env, "mouseDown", s2,
                  \/ s2.isDragging
                  \/ s2.isResizing
                  \/ currentTool = "connect" /\ "connect" \in env.watch
                  \/ currentTool = "draw" /\ "draw" \in env.watch
                  \/ currentTool = "select" /\ "select" \in env.watch
                  \/ textInputOpen /\ "text" \in env.watch,
                  IF s2.isResizing THEN "resize"
                  ELSE IF textInputOpen /\ "text" \in env.watch THEN "text"
                  ELSE IF currentTool \in {"connect", "draw"} THEN currentTool
                  ELSE IF s2.isDragging THEN (IF shift THEN "shiftDrag" ELSE "drag")
                  ELSE IF shift THEN "shiftMiss"
                  ELSE "miss",
                  p, hit)

MouseMove(env) ==
  \E p \in env.moves :
    /\ Loaded
    /\ ~isPanning
    /\ env.strict => ~PointerIdle
    /\ (isResizing /\ ~IsNull(resizeObject) /\ Deref(St, resizeObject).type = "ellipse")
         => EvenTravel(p, resizeStart.mouseX, resizeStart.mouseY)
    /\ LET resize == isResizing /\ ~IsNull(resizeObject)
           drag == ~resize /\ isDragging /\ selectedObjects # <<>>
           draw == /\ ~resize /\ ~drag /\ isDrawing /\ currentTool = "draw"
                   /\ "draw" \in env.watch
       IN DoAt(env, "mouseMove", onMouseMove(St, p.x, p.y), resize \/ drag \/ draw,
               IF resize THEN "resize" ELSE IF drag THEN "drag" ELSE "draw", p)

MouseUp(env) ==
  \E p \in env.ups, hit \in Hits(St) :
    /\ Loaded
    /\ ~isPanning
    /\ env.strict => ~PointerIdle
    /\ (isDrawing /\ currentTool = "ellipse") => EvenTravel(p, startX, startY)
    /\ LET s2 == onMouseUp(St, hit, p.x, p.y)
           drawing == /\ IsNull(connectingFrom) /\ ~isResizing /\ ~isDragging
                      /\ isDrawing
           shape == drawing /\ currentTool \in {"line", "rect", "ellipse"}
           draw == drawing /\ currentTool = "draw" /\ "draw" \in env.watch
           connect == ~IsNull(connectingFrom) /\ "connect" \in env.watch
       IN DoHit(env, "mouseUp", s2, shape \/ draw \/ connect \/ "up" \in env.watch,
                IF connect THEN "connect"
                ELSE IF draw THEN "draw"
                ELSE IF Len(s2.objects) > Len(objects) THEN "committed"
                ELSE "discarded",
                p, IF connect THEN hit ELSE 0)

DoubleClick(env) ==
  \E hit \in Hits(St) :
    /\ Loaded
    /\ hit > 0
    /\ objects[hit].type = "text"
    /\ textInputOpen => (currentTool = "text" /\ IsNull(editingTextObject))
    /\ Calm(env)
    /\ Do(env, "doubleClick", editTextObject(St, hit), TRUE, "")

\* The timer of showTextInput / editTextObject gives the input the focus.
FocusText(env) ==
  /\ textInputOpen
  /\ ~textFocused
  /\ ~blurDue
  /\ Do(env, "focusText", [St EXCEPT !.textFocused = TRUE], TRUE, "")

\* The blur event that is due arrives: the handlers have emptied the input.
LateBlur(env) ==
  /\ blurDue
  /\ Do(env, "lateBlur", [finalizeText(St, "") EXCEPT !.blurDue = FALSE],
        "text" \in env.watch, "")

BlurText(env) ==
  \E v \in TypedValues :
    /\ textInputOpen
    /\ textFocused
    /\ Do(env, "blurText", finalizeText(St, v), "text" \in env.watch, v)

EnterText(env) ==
  \E v \in TypedValues :
    /\ textInputOpen
    /\ textFocused
    /\ Do(env, "enterText", Blurs(env, selectTool(finalizeText(St, v), "select")),
          "text" \in env.watch, v)

EscapeText(env) ==
  /\ textInputOpen
  /\ textFocused
  /\ Do(env, "escapeText",
        Blurs(env, CloseTextInput([St EXCEPT !.editingTextObject = NullRef])),
        "text" \in env.watch, "")

DeleteKey(env) ==
  /\ UiFree(env)
  /\ LET s2 == deleteSelected(St)
     IN Do(env, "deleteSelected", s2, selectedObjects # <<>>,
           IF Len(s2.objects) < Len(objects) - Cardinality(LiveIdx(selectedObjects))
           THEN "cascade" ELSE "")

EscapeKey(env) ==
  /\ UiFree(env)
  /\ Do(env, "deselectAll", deselectAll(St), TRUE, "")

SelectAllKey(env) ==
  /\ UiFree(env)
  /\ Do(env, "selectAll", selectAll(St), TRUE, "")

Undo(env) ==
  /\ UiFree(env)
  /\ Do(env, "undo", undo(St), TRUE, IF historyIndex > 0 THEN "" ELSE "noop")

Redo(env) ==
  /\ UiFree(env)
  /\ Do(env, "redo", redo(St), TRUE,
        IF historyIndex < Len(history) - 1 THEN "" ELSE "noop")

ClearAll(env) ==
  /\ UiFree(env)
  /\ objects # <<>>
  /\ Do(env, "clearAll", clearAll(St), TRUE, "")

StrokeWidthInput(env) ==
  \E w \in StrokeWidths :
    /\ UiFree(env)
    /\ w # strokeWidth
    /\ env.strict => selectedObjects # <<>>
    /\ Do(env, "strokeWidth", updateSelectedObjects(St, w), selectedObjects # <<>>, "")

ImageUpload(env) ==
  \E kind \in FileKinds :
    /\ UiFree(env)
    /\ currentTool = "image"
    /\ Len(pendingImages) < MaxPending
    /\ env.linear => (objects = <<>> /\ historyIndex = Len(history) - 1)
    /\ Do(env, "imageUpload", handleImageUpload(St, kind, PictureOf[currentPage]),
          kind \in {"text", "big"}, "rejected")

ImageOnload(env) ==
  \E k \in 1..Len(pendingImages), size \in env.canvas, natural \in env.pictures :
    /\ Loaded
    /\ WholeBox(imageBox(Vw, size, natural))
    /\ DoAt(env, "imageOnload", loadImageOnload(St, k, Vw, size, natural),
            "image" \in env.watch, "", Point(natural[1], natural[2]))

\* A viewport step: the viewport becomes v2.  It counts as a zoom step when
\* count is TRUE.
ViewStep(op, v2, ax, ay, count) ==
  /\ Loaded
  /\ count => lastView.n < MaxViewSteps
  /\ scale' = v2.scale
  /\ offsetX' = v2.offsetX
  /\ offsetY' = v2.offsetY
  /\ isPanning' = v2.isPanning
  /\ lastView' = [op |-> op, ax |-> ax, ay |-> ay,
                  clamped |-> op \in {"wheel", "zoom"} /\ v2.scale \in {minScale, maxScale},
                  n |-> IF count THEN lastView.n + 1 ELSE lastView.n]
  /\ UNCHANGED <<anchorVars, hostVars>>

Wheel ==
  \E a \in WheelPoints, deltaY \in WheelDeltas :
    /\ ViewStep("wheel", onWheel(Vw, a[1], a[2], deltaY), Whole(a[1]), Whole(a[2]), TRUE)
    /\ lastOp' = NoOp
    /\ Becomes(St)
    /\ UNCHANGED sym

ZoomButton ==
  \E factor \in ButtonFactors, size \in CanvasSizes :
    /\ ViewStep("zoom", zoom(Vw, factor, size[1], size[2]),
                Frac(size[1], 2), Frac(size[2], 2), TRUE)
    /\ lastOp' = NoOp
    /\ Becomes(St)
    /\ UNCHANGED sym

ResetZoom ==
  /\ ViewStep("reset", resetZoom(Vw), Whole(0), Whole(0), FALSE)
  /\ lastOp' = NoOp
  /\ Becomes(St)
  /\ UNCHANGED sym

\* onMouseDown with the middle button, or with the left button and the pan
\* tool.
PanDown(env) ==
  \E c \in DownCoords :
    /\ ~textInputOpen /\ ~isPanning
    /\ ~env.chord => PointerIdle
    /\ ViewStep("panDown", [Vw EXCEPT !.isPanning = TRUE], Whole(0), Whole(0), FALSE)
    /\ Becomes([St EXCEPT !.startX = c])
    /\ lastOp' = NoOp
    /\ UNCHANGED sym

PanMove ==
  \E d \in PanDeltas :
    /\ isPanning
    /\ ViewStep("pan", panMove(Vw, d[1], d[2]), Whole(d[1]), Whole(d[2]), TRUE)
    /\ lastOp' = NoOp
    /\ Becomes(St)
    /\ UNCHANGED sym

PanUp ==
  /\ isPanning
  /\ ViewStep("panUp", [Vw EXCEPT !.isPanning = FALSE], Whole(0), Whole(0), FALSE)
  /\ lastOp' = NoOp
  /\ Becomes(St)
  /\ UNCHANGED sym


Next ==
  \/ SelectPage(MainEnv)
  \/ SelectTool(MainEnv)
  \/ MouseDown(MainEnv)
  \/ MouseMove(MainEnv)
  \/ MouseUp(MainEnv)
  \/ DoubleClick(MainEnv)
  \/ FocusText(MainEnv)
  \/ BlurText(MainEnv)
  \/ EnterText(MainEnv)
  \/ EscapeText(MainEnv)
  \/ DeleteKey(MainEnv)
  \/ EscapeKey(MainEnv)
  \/ SelectAllKey(MainEnv)
  \/ Undo(MainEnv)
  \/ Redo(MainEnv)
  \/ ClearAll(MainEnv)
  \/ StrokeWidthInput(MainEnv)
  \/ ImageUpload(MainEnv)
  \/ ImageOnload(MainEnv)

Spec == Init /\ [][Next]_vars

\* A session that goes deep into the history: the user loads a page, uploads
\* an image or changes the stroke width of the selection over and over, and
\* walks the history with undo and redo.
NextHist ==
  \/ SelectPage(HistEnv)
  \/ SelectTool(HistEnv)
  \/ SelectAllKey(HistEnv)
  \/ StrokeWidthInput(HistEnv)
  \/ ImageUpload(HistEnv)
  \/ ImageOnload(HistEnv)
  \/ Undo(HistEnv)
  \/ Redo(HistEnv)

SpecHist == Init /\ [][NextHist]_vars

\* A session in which the user goes on while an image is being decoded: opens
\* another page, selects, deletes, undoes.
NextRace ==
  \/ SelectPage(RaceEnv)
  \/ SelectTool(RaceEnv)
  \/ ImageUpload(RaceEnv)
  \/ ImageOnload(RaceEnv)
  \/ SelectAllKey(RaceEnv)
  \/ DeleteKey(RaceEnv)
  \/ Undo(RaceEnv)
  \/ Redo(RaceEnv)

SpecRace == Init /\ [][NextRace]_vars

\* A session of drawing shapes and resizing them on one page.
NextShape ==
  \/ SelectPage(ShapeEnv)
  \/ SelectTool(ShapeEnv)
  \/ SelectAllKey(ShapeEnv)
  \/ MouseDown(ShapeEnv)
  \/ MouseMove(ShapeEnv)
  \/ MouseUp(ShapeEnv)

SpecShape == Init /\ [][NextShape]_vars

\* The natural sizes of the pictures a user places: small, exactly as large as
\* the limit, wide, tall and square beyond the limit.
PlacedPictures == {<<30, 30>>, <<400, 400>>, <<800, 400>>, <<300, 600>>,
                   <<401, 802>>, <<1000, 1000>>}

\* A user who zooms and pans a page and uploads one picture to it.
PlaceEnv == [budget |-> 1, track |-> FALSE, strict |-> TRUE,
             tools |-> {"image"}, linear |-> FALSE,
             downs |-> {}, moves |-> {}, ups |-> {}, handles |-> {},
             range |-> (-PlaceRange)..PlaceRange,
             press |-> TRUE, watch |-> {"image"},
             geometry |-> FALSE, shifts |-> Shifts,
             canvas |-> CanvasSizes, pictures |-> PlacedPictures, chord |-> FALSE]

\* A session of placing a picture on a zoomed and panned page.
NextPlace ==
  \/ SelectPage(PlaceEnv)
  \/ SelectTool(PlaceEnv)
  \/ ImageUpload(PlaceEnv)
  \/ ImageOnload(PlaceEnv)
  \/ ZoomButton
  \/ PanDown(PlaceEnv)
  \/ PanMove
  \/ PanUp

SpecPlace == InitZoomed /\ [][NextPlace]_vars

\* A user who presses a second mouse button while the first is down, and
\* whose pointer leaves the canvas.
ChordEnv == [budget |-> 1, track |-> FALSE, strict |-> TRUE,
             tools |-> {"select"}, linear |-> TRUE,
             downs |-> Diagonal(DownCoords), moves |-> Diagonal(MoveCoords),
             ups |-> Diagonal(MoveCoords), handles |-> {}, range |-> 0..Far,
             press |-> TRUE, watch |-> {"up"},
             geometry |-> FALSE, shifts |-> Shifts,
             canvas |-> {PictureCanvas}, pictures |-> {PictureSize},
             chord |-> TRUE]

\* A session of pointer events of the left and the middle button.
NextChord ==
  \/ SelectPage(ChordEnv)
  \/ MouseDown(ChordEnv)
  \/ MouseMove(ChordEnv)
  \/ MouseUp(ChordEnv)
  \/ PanDown(ChordEnv)
  \/ PanMove
  \/ PanUp

SpecChord == Init /\ [][NextChord]_vars

\* A user who drags objects while a picture is being decoded, and who
\* presses Escape in the middle of a drag.
LeakEnv == [budget |-> MaxCommits, track |-> FALSE, strict |-> FALSE,
            tools |-> {"select", "image"}, linear |-> FALSE,
            downs |-> Diagonal(DownCoords), moves |-> Diagonal(MoveCoords),
            ups |-> Diagonal(MoveCoords), handles |-> {}, range |-> 0..Far,
            press |-> TRUE, watch |-> {},
            geometry |-> FALSE, shifts |-> Shifts,
            canvas |-> {PictureCanvas}, pictures |-> {PictureSize},
            chord |-> FALSE]

\* A session of drags interleaved with image decodes and the Escape key.
NextLeak ==
  \/ SelectPage(LeakEnv)
  \/ SelectTool(LeakEnv)
  \/ ImageUpload(LeakEnv)
  \/ ImageOnload(LeakEnv)
  \/ MouseDown(LeakEnv)
  \/ MouseMove(LeakEnv)
  \/ MouseUp(LeakEnv)
  \/ EscapeKey(LeakEnv)

SpecLeak == Init /\ [][NextLeak]_vars

HostBecomes(h) ==
  /\ workspaces' = h.workspaces
  /\ pages' = h.pages
  /\ currentWorkspace' = h.currentWorkspace
  /\ saveTimeout' = h.saveTimeout

\* HackNote.init: loadData fetches /api/data and the fetch ends in one of the
\* three ways.
LoadData ==
  \E result \in {"ok", "notOk", "threw"} :
    /\ loadResult = "none"
    /\ HostBecomes(loadData(Host, result, getData(appData)))
    /\ loadResult' = result
    /\ UNCHANGED <<appData, editorVars, viewVars, anchorVars>>

\* The timer of saveData fires: the data is posted to /api/data.
PostSavedData ==
  \E saved \in BOOLEAN :
    /\ saveTimeout # <<>>
    /\ appData' = postData(appData, saveTimeout[1], saved)
    /\ saveTimeout' = <<>>
    /\ UNCHANGED <<workspaces, pages, currentWorkspace, loadResult,
                   editorVars, viewVars, anchorVars>>

CreateWorkspace ==
  /\ loadResult # "none"
  /\ Len(workspaces) < MaxWorkspaces
  /\ HostBecomes(createWorkspace(Host))
  /\ UNCHANGED <<appData, loadResult, editorVars, viewVars, anchorVars>>

\* Ctrl+N.  The page is a notes page: selectPage shows it without the canvas
\* editor.
CreatePage ==
  /\ loadResult # "none"
  /\ Len(pages) < MaxPages
  /\ HostBecomes(createPage(Host))
  /\ UNCHANGED <<appData, loadResult, editorVars, viewVars, anchorVars>>

\* Ctrl+S
SaveShortcut ==
  /\ loadResult # "none"
  /\ HostBecomes(saveData(Host))
  /\ UNCHANGED <<appData, loadResult, editorVars, viewVars, anchorVars>>

\* The start of the application and the first actions of its user.
NextLoad ==
  \/ LoadData
  \/ PostSavedData
  \/ CreateWorkspace
  \/ CreatePage
  \/ SaveShortcut

SpecLoad == InitLoad /\ [][NextLoad]_vars

\* A session of clicks and shift-clicks with the select tool.
NextSelect ==
  \/ SelectPage(SelectEnv)
  \/ SelectAllKey(SelectEnv)
  \/ EscapeKey(SelectEnv)
  \/ MouseDown(SelectEnv)
  \/ MouseUp(SelectEnv)

SpecSelect == Init /\ [][NextSelect]_vars

\* A session of dragging the objects of one page.
NextDrag ==
  \/ SelectPage(DragEnv)
  \/ SelectAllKey(DragEnv)
  \/ MouseDown(DragEnv)
  \/ MouseMove(DragEnv)
  \/ MouseUp(DragEnv)

SpecDrag == Init /\ [][NextDrag]_vars

\* A session of pressing on overlapping shapes at one of three scales.
NextHit ==
  \/ SelectPage(HitEnv) /\ currentPage' = "p1"
  \/ SelectTool(HitEnv)
  \/ SelectAllKey(HitEnv)
  \/ MouseDown(HitEnv)
  \/ MouseUp(HitEnv)

SpecHit == InitZoomed /\ [][NextHit]_vars

\* A session of freehand drawing.
NextDraw ==
  \/ SelectPage(DrawEnv)
  \/ SelectTool(DrawEnv)
  \/ MouseDown(DrawEnv)
  \/ MouseMove(DrawEnv)
  \/ MouseUp(DrawEnv)
  \/ Undo(DrawEnv)

SpecDraw == Init /\ [][NextDraw]_vars

\* A session of text entry: a blur event that is due is delivered before the
\* user does anything else.
NextText ==
  \/ LateBlur(TextEnv)
  \/ ~blurDue /\ SelectPage(TextEnv)
  \/ ~blurDue /\ SelectTool(TextEnv)
  \/ ~blurDue /\ MouseDown(TextEnv)
  \/ ~blurDue /\ MouseUp(TextEnv)
  \/ ~blurDue /\ FocusText(TextEnv)
  \/ ~blurDue /\ BlurText(TextEnv)
  \/ ~blurDue /\ EnterText(TextEnv)
  \/ ~blurDue /\ EscapeText(TextEnv)
  \/ ~blurDue /\ Undo(TextEnv)

SpecText == Init /\ [][NextText]_vars

\* A session of editing the text objects of a page by double-click.
NextEdit ==
  \/ LateBlur(TextEnv)
  \/ ~blurDue /\ SelectPage(TextEnv)
  \/ ~blurDue /\ SelectTool(TextEnv)
  \/ ~blurDue /\ DoubleClick(TextEnv)
  \/ ~blurDue /\ MouseDown(TextEnv)
  \/ ~blurDue /\ MouseUp(TextEnv)
  \/ ~blurDue /\ FocusText(TextEnv)
  \/ ~blurDue /\ BlurText(TextEnv)
  \/ ~blurDue /\ EnterText(TextEnv)
  \/ ~blurDue /\ EscapeText(TextEnv)

SpecEdit == Init /\ [][NextEdit]_vars

\* A session with the text and the connect tools in which undo and redo
\* interrupt pending connections.
NextConnect ==
  \/ SelectPage(ConnectEnv)
  \/ SelectTool(ConnectEnv)
  \/ MouseDown(ConnectEnv)
  \/ MouseMove(ConnectEnv)
  \/ MouseUp(ConnectEnv)
  \/ FocusText(ConnectEnv)
  \/ EnterText(ConnectEnv)
  \/ Undo(ConnectEnv)
  \/ Redo(ConnectEnv)

SpecConnect == Init /\ [][NextConnect]_vars

\* A session in which tool shortcuts interrupt pointer gestures.
NextInterrupt ==
  \/ SelectPage(InterruptEnv)
  \/ SelectTool(InterruptEnv)
  \/ SelectAllKey(InterruptEnv)
  \/ MouseDown(InterruptEnv)
  \/ MouseMove(InterruptEnv)
  \/ MouseUp(InterruptEnv)

SpecInterrupt == Init /\ [][NextInterrupt]_vars

\* drawConnector asks for the anchors of a connector between two boxes.
CalculateAnchors ==
  /\ anchors = <<>>
  /\ anchors' = <<calculateConnectorAnchors(fromBounds, toBounds)>>
  /\ UNCHANGED <<editorVars, viewVars, fromBounds, toBounds, hostVars>>

NextAnchors == CalculateAnchors

SpecAnchors == InitBoxes /\ [][NextAnchors]_vars

\* A session of zooming and panning on one page.
NextView ==
  \/ SelectPage(ViewEnv)
  \/ SelectAllKey(ViewEnv)
  \/ Wheel
  \/ ZoomButton
  \/ ResetZoom
  \/ PanDown(ViewEnv)
  \/ PanMove
  \/ PanUp

SpecView == InitZoomed /\ [][NextView]_vars

\* -------------------------------------------------------------- properties

\* The ids of the objects of the live list.
LiveIds == {objects[i].id : i \in 1..Len(objects)}

\* A scene with its decoded-image handles taken away.
Unhandled(objs) == [i \in 1..Len(objs) |-> [objs[i] EXCEPT !.imageElement = "none"]]

\* C1, as the specification states it: in every reachable state every
\* connector of the live list has a fromId and a toId that are ids of objects
\* of the live list.  finalizeText breaks it when it removes a text object
\* whose text was emptied: the connectors of that object stay.
NoDanglingConnector ==
  \A i \in 1..Len(objects) :
    objects[i].type = "connector" =>
      objects[i].fromId \in LiveIds /\ objects[i].toId \in LiveIds

\* The positions of the live list a deletion of the selection must empty: the
\* selected objects and the connectors that start or end at one of them.
Doomed ==
  LET picked == LiveIdx(selectedObjects)
      removedIds == {objects[i].id : i \in picked}
  IN picked \cup {i \in 1..Len(objects) :
                    /\ objects[i].type = "connector"
                    /\ objects[i].fromId \in removedIds \/ objects[i].toId \in removedIds}

\* The place of survivor i once the positions of gone are taken out.
Rank(i, gone) == Cardinality({j \in 1..i : j \notin gone})

\* C2: deleteSelected with a non-empty selection removes, in one step, every
\* selected object and every connector that starts or ends at a removed
\* object, selected or not; it keeps the other objects in their order, empties
\* the selection and takes exactly one history snapshot.
DeleteCascades ==
  [][lastOp'.op = "deleteSelected" =>
       /\ Len(objects') = Len(objects) - Cardinality(Doomed)
       /\ \A i \in 1..Len(objects) :
            i \notin Doomed => objects'[Rank(i, Doomed)] = objects[i]
       /\ selectedObjects' = <<>>
       /\ nCommits' = nCommits + 1
       /\ history' = Append(SubSeq(history, 1, historyIndex + 1), Ser(objects'))
       /\ historyIndex' = historyIndex + 1]_vars

\* A deletion has just removed a connector that was not selected.
DeleteCascadesSeen == lastOp.op = "deleteSelected" /\ lastOp.info = "cascade"

\* The history of a path committed on an empty page and a rectangle committed
\* after it.
PathThenRect ==
  /\ Len(history) = 3
  /\ history[1] = <<>>
  /\ Len(history[2]) = 1
  /\ history[2][1].type = "path"
  /\ Len(history[3]) = 2
  /\ history[3][1] = history[2][1]
  /\ history[3][2].type = "rect"

\* C4: an undo that has an entry to go back to replaces the live scene by
\* the snapshot just before the cursor and moves the cursor onto it.  After a
\* path and then a rectangle were committed on a page loaded empty, the first
\* undo leaves exactly the path and the second leaves an empty scene.
SingleStepUndo ==
  /\ [][(lastOp'.op = "undo" /\ lastOp'.info = "") =>
          /\ historyIndex > 0
          /\ historyIndex' = historyIndex - 1
          /\ history' = history
          /\ Unhandled(objects') = history[historyIndex]]_vars
  /\ []((PathThenRect /\ lastOp.op = "undo") =>
          /\ historyIndex < 2
          /\ historyIndex = 1 =>
               Len(objects) = 1 /\ Unhandled(objects) = history[2]
          /\ historyIndex = 0 => objects = <<>>)

\* The path and the rectangle have been undone, one undo each.
SingleStepUndoSeen ==
  PathThenRect /\ lastOp.op = "undo" /\ lastOp.info = "" /\ historyIndex = 0

\* C6: undo with the cursor on the oldest entry and redo with the cursor on
\* the newest entry change nothing: not the cursor, the history, the live
\* list, the selection or the canvasData of the pages.
BoundaryNoOp ==
  [][lastOp'.info = "noop" =>
       /\ lastOp'.op = "undo" => historyIndex = 0
       /\ lastOp'.op = "redo" => historyIndex = Len(history) - 1
       /\ UNCHANGED <<historyIndex, history, objects, selectedObjects, canvasData>>]_vars

\* Undo was asked for on the oldest entry of a history that has newer ones,
\* with something selected.
BoundaryNoOpSeen ==
  /\ lastOp.op = "undo" /\ lastOp.info = "noop"
  /\ Len(history) > 1
  /\ selectedObjects # <<>>

\* C7: a snapshot taken after one or more undos drops every history entry
\* beyond the cursor; the new snapshot is the last entry and the cursor is on
\* it, so that redo finds nothing to do until the next undo.
RedoBranchDiscarded ==
  /\ [][lastOp'.cut =>
          /\ history' = Append(SubSeq(history, 1, historyIndex + 1), Ser(objects'))
          /\ historyIndex' = Len(history') - 1
          /\ redo(St)' = St']_vars
  /\ [][(historyIndex = Len(history) - 1 /\ lastOp'.op # "undo") =>
          historyIndex' = Len(history') - 1]_vars

\* A snapshot has just been taken below the newest entry.
RedoBranchDiscardedSeen == lastOp.cut

\* C8, as the specification states it: an id once given to an object is not
\* given to another object later in the session, and no two objects of the
\* live list share an id.  loadFromPage breaks it: it sets the counter back
\* to the greatest id of the scene it loads.
IdsNeverReused ==
  /\ ~reused
  /\ \A i, j \in 1..Len(objects) : objects[i].id = objects[j].id => i = j

\* No snapshot of the history and no object of a page's canvasData carries a
\* decoded-image handle.
NoStoredHandle ==
  /\ \A k \in 1..Len(history) :
       \A i \in 1..Len(history[k]) : history[k][i].imageElement = "none"
  /\ \A p \in Pages :
       \A i \in 1..Len(canvasData[p].objs) : canvasData[p].objs[i].imageElement = "none"

\* C9: after every step that takes a snapshot and after every undo and redo
\* that moves the cursor, the canvasData of the current page is the live list,
\* in its order, without the decoded-image handles; and neither the history
\* nor any canvasData ever holds a decoded-image handle.
PageFollowsScene ==
  /\ [][(\/ nCommits' > nCommits
         \/ (lastOp'.op \in {"undo", "redo"} /\ lastOp'.info = "")) =>
          /\ canvasData'[currentPage'].present
          /\ canvasData'[currentPage'].objs = Unhandled(objects')]_vars
  /\ []NoStoredHandle

\* An undo has just brought back an image, which has a fresh handle in the
\* live list.
PageFollowsSceneSeen ==
  /\ lastOp.op = "undo" /\ lastOp.info = ""
  /\ \E i \in 1..Len(objects) : objects[i].imageElement = "restore"

\* The live list loadFromPage builds from getObjects of the current one.
RoundTrip ==
  LET stored == [St EXCEPT !.canvasData[currentPage] =
                              [present |-> TRUE, objs |-> getObjects(objects)]]
  IN loadFromPage(stored, currentPage).objects

\* C10: getObjects followed by loadFromPage gives a live list with the same
\* objects in the same order and with the same persisted attributes; an image
\* with a source has a decoded-image handle again, which may be another one.
RoundTripKeepsScene ==
  Loaded =>
    /\ Len(RoundTrip) = Len(objects)
    /\ Unhandled(RoundTrip) = Unhandled(objects)
    /\ \A i \in 1..Len(objects) :
         (objects[i].type = "image" /\ objects[i].src # "") =>
           RoundTrip[i].imageElement # "none"

\* The live list holds a just decoded image and a freehand path.
RoundTripKeepsSceneSeen ==
  /\ \E i \in 1..Len(objects) : objects[i].imageElement = "upload"
  /\ \E i \in 1..Len(objects) :
       objects[i].type = "path" /\ Len(objects[i].points) > 1

\* C3, as the specification states it: after a page load and N snapshots,
\* for every N, N calls of undo bring the scene back to the loaded one and N
\* calls of redo then bring back the scene the snapshots left.  It fails from
\* N = maxHistory on: the snapshot of the loaded scene has been evicted.
UndoRedoSymmetryAnyN ==
  /\ (sym.phase = "undo" /\ sym.u = sym.n) => Unhandled(objects) = sym.base
  /\ (sym.phase = "redo" /\ sym.r = sym.n) => Unhandled(objects) = sym.final

\* C3, amended: the same for every N below maxHistory, the scenes compared as
\* the snapshots store them.
UndoRedoSymmetry ==
  sym.n < maxHistory =>
    /\ (sym.phase = "undo" /\ sym.u = sym.n) => Unhandled(objects) = sym.base
    /\ (sym.phase = "redo" /\ sym.r = sym.n) => Unhandled(objects) = sym.final

\* The longest run the amended claim covers has been undone and redone, and
\* its last scene is not the loaded one.
UndoRedoSymmetrySeen ==
  /\ sym.phase = "redo"
  /\ sym.r = sym.n
  /\ sym.n = maxHistory - 1
  /\ sym.final # sym.base

\* C5: the history never holds more than maxHistory snapshots, the oldest
\* being dropped when one more is pushed, and once a page is loaded the cursor
\* is on an entry of the history: undo goes no further back than the oldest
\* of the maxHistory newest snapshots.
HistoryBounded ==
  /\ [](/\ Len(history) <= maxHistory
        /\ Loaded => (0 <= historyIndex /\ historyIndex <= Len(history) - 1))
  /\ [][(nCommits' > nCommits /\ historyIndex = maxHistory - 1) =>
          /\ history' = Append(Tail(history), Ser(objects'))
          /\ historyIndex' = maxHistory - 1]_vars

\* More snapshots were taken than the history holds, and undo has gone back
\* to the oldest one kept.
HistoryBoundedSeen ==
  /\ nCommits >= maxHistory
  /\ Len(history) = maxHistory
  /\ historyIndex = 0
  /\ lastOp.op = "undo"

\* C11: loadFromPage replaces the state of the editor: the live list is the
\* canvasData of the page that is opened, or empty when the page has none,
\* the selection is empty and the history holds one entry, the loaded scene,
\* with the cursor on it, so that undo finds nothing of the page that was
\* open before.
LoadReplacesState ==
  [][lastOp'.op = "selectPage" =>
       LET p == currentPage'
           data == IF canvasData[p].present THEN canvasData[p].objs ELSE <<>>
       IN /\ Unhandled(objects') = data
          /\ selectedObjects' = <<>>
          /\ history' = <<Ser(objects')>>
          /\ historyIndex' = 0
          /\ undo(St)' = St']_vars

\* The second page has just been opened after objects were drawn on the
\* first one.
LoadReplacesStateSeen ==
  /\ lastOp.op = "selectPage"
  /\ currentPage = "p2"
  /\ canvasData["p1"].present
  /\ canvasData["p1"].objs # <<>>
  /\ objects # <<>>

\* C20: an upload that is turned down, because the file is not an image or
\* is above the size limit, has no effect: no object is added, no id is
\* used, no snapshot is taken, no decode is started and the canvasData of the
\* pages stay as they are.
RejectedUploadNoEffect ==
  [][(lastOp'.op = "imageUpload" /\ lastOp'.info = "rejected") =>
       UNCHANGED <<objects, selectedObjects, objectIdCounter, issued, history,
                   historyIndex, nCommits, canvasData, pendingImages>>]_vars

\* A file has just been turned down on a page that holds objects.
RejectedUploadNoEffectSeen ==
  /\ lastOp.op = "imageUpload"
  /\ lastOp.info = "rejected"
  /\ objects # <<>>

\* C12, as the specification states it: the completion of an image decode
\* never puts the image into a page other than the one that was open when
\* the upload started; the canvasData of a page holds pictures uploaded on
\* that page only.  The img.onload callback of loadImage breaks it: it adds
\* the image to whatever scene is live when it fires.
OwnPicturesOnly ==
  \A p \in Pages :
    \A i \in 1..Len(canvasData[p].objs) :
      \A q \in Pages \ {p} : canvasData[p].objs[i].src # PictureOf[q]


\* C13: the scale stays within [minScale, maxScale] whatever wheel zooms,
\* button zooms and resets are made, and resetZoom leaves scale 1 and both
\* offsets 0.
ScaleClamped ==
  /\ [](Leq(minScale, scale) /\ Leq(scale, maxScale))
  /\ [][lastView'.op = "reset" =>
          (scale' = Whole(1) /\ offsetX' = Whole(0) /\ offsetY' = Whole(0))]_vars

\* A zoom step ran into the upper limit.
ScaleClampedSeen ==
  /\ lastView.op \in {"wheel", "zoom"}
  /\ lastView.clamped
  /\ scale = maxScale

\* C14: a wheel zoom at screen point A, and a button zoom with A the centre of
\* the canvas element, leaves the canvas point shown at A where it was, also
\* when the new scale is clamped.
ZoomKeepsAnchor ==
  [][lastView'.op \in {"wheel", "zoom"} =>
       /\ screenToCanvas(lastView'.ax, offsetX', scale') = screenToCanvas(lastView'.ax, offsetX, scale)
       /\ screenToCanvas(lastView'.ay, offsetY', scale') = screenToCanvas(lastView'.ay, offsetY, scale)]_vars

\* A wheel zoom away from the screen origin, on a panned viewport, was clamped.
ZoomKeepsAnchorSeen ==
  /\ lastView.op = "wheel"
  /\ lastView.clamped
  /\ lastView.ax # Whole(0)
  /\ offsetX # Whole(0)
  /\ lastView.n = MaxViewSteps


\* The centre of a box along one axis.
Mid(lo, size) == Plus(Whole(lo), Frac(size, 2))

\* C15: calculateConnectorAnchors compares |dx| and |dy| of the two box
\* centres.  When |dx| > |dy| the anchors are on the facing vertical edges at
\* the vertical centres: source right edge and target left edge when the
\* target is to the right, mirrored otherwise.  Else they are on the facing
\* horizontal edges at the horizontal centres.  For A = (0,0,100,100) and
\* B = (300,0,100,100) the anchors are (100,50) and (300,50).
AnchorChoice ==
  anchors # <<>> =>
    LET f == fromBounds
        t == toBounds
        dx == Minus(Mid(t.x, t.width), Mid(f.x, f.width))
        dy == Minus(Mid(t.y, t.height), Mid(f.y, f.height))
        wide == ~Leq(AbsFrac(dx), AbsFrac(dy))
    IN /\ wide =>
            /\ anchors[1].from.y = Mid(f.y, f.height)
            /\ anchors[1].to.y = Mid(t.y, t.height)
            /\ dx.n > 0 => (anchors[1].from.x = Whole(f.x + f.width) /\ anchors[1].to.x = Whole(t.x))
            /\ dx.n < 0 => (anchors[1].from.x = Whole(f.x) /\ anchors[1].to.x = Whole(t.x + t.width))
       /\ ~wide =>
            /\ anchors[1].from.x = Mid(f.x, f.width)
            /\ anchors[1].to.x = Mid(t.x, t.width)
            /\ dy.n > 0 => (anchors[1].from.y = Whole(f.y + f.height) /\ anchors[1].to.y = Whole(t.y))
            /\ dy.n < 0 => (anchors[1].from.y = Whole(f.y) /\ anchors[1].to.y = Whole(t.y + t.height))
            /\ dy.n = 0 => /\ anchors[1].from.y \in {Whole(f.y), Whole(f.y + f.height)}
                           /\ anchors[1].to.y \in {Whole(t.y), Whole(t.y + t.height)}
       /\ (f = Bounds(0, 0, 100, 100) /\ t = Bounds(300, 0, 100, 100)) =>
            /\ anchors[1].from = Point(Whole(100), Whole(50))
            /\ anchors[1].to = Point(Whole(300), Whole(50))

\* The anchors of the connector from (0,0,100,100) to (300,0,100,100) have
\* been calculated.
AnchorChoiceSeen ==
  /\ anchors # <<>>
  /\ fromBounds = Bounds(0, 0, 100, 100)
  /\ toBounds = Bounds(300, 0, 100, 100)


\* C16: when the pointer goes up with the rect or the ellipse tool an object
\* is committed only if the drag exceeds 2 on both axes, with the line tool
\* only if it exceeds 2 on one axis at least; a drag below that adds no
\* object, gives out no id and takes no history snapshot.
MinimumSizeRejection ==
  [][(lastOp'.op = "mouseUp" /\ lastOp'.info \in {"committed", "discarded"}) =>
       LET dx == Abs(lastOp'.at.x - startX)
           dy == Abs(lastOp'.at.y - startY)
           enough == IF currentTool = "line" THEN dx > 2 \/ dy > 2
                     ELSE dx > 2 /\ dy > 2
       IN /\ Len(objects') > Len(objects) => enough
          /\ ~enough => UNCHANGED <<objects, objectIdCounter, issued, history,
                                    historyIndex, nCommits, canvasData>>]_vars

\* A rectangle drag of 2 on both axes has just been discarded.
MinimumSizeRejectionSeen ==
  /\ lastOp.op = "mouseUp"
  /\ lastOp.info = "discarded"
  /\ currentTool = "rect"
  /\ lastOp.at = Point(2, 2)

\* C17: after every pointer move of a corner-handle resize of a rect or an
\* image, whatever the handle, width and height are at least 20, and a width
\* the pointer would take below 20 is exactly 20.
ResizeClamp ==
  [][(lastOp'.op = "mouseMove" /\ lastOp'.info = "resize") =>
       LET o == Deref(St', resizeObject')
           dx == lastOp'.at.x - resizeStart.mouseX
           asked == IF resizeHandle \in {"se", "ne"} THEN resizeStart.width + dx
                    ELSE resizeStart.width - dx
       IN o.type \in {"rect", "image"} =>
            /\ o.width >= 20
            /\ o.height >= 20
            /\ asked < 20 => o.width = 20]_vars

\* A rect wider than 20 is being shrunk and stands at width 20.
ResizeClampSeen ==
  /\ lastOp.op = "mouseMove"
  /\ isResizing
  /\ Deref(St, resizeObject).type = "rect"
  /\ resizeStart.width > 20
  /\ Deref(St, resizeObject).width = 20

\* C18: after every pointer move of a corner-handle resize of a rect or an
\* image, the corner opposite the handle is where it was when the resize
\* started, also when width or height is held at 20.
ResizeFixedCorner ==
  [][(lastOp'.op = "mouseMove" /\ lastOp'.info = "resize") =>
       LET o == Deref(St', resizeObject')
           start == resizeStart
           east == resizeHandle \in {"se", "ne"}
           south == resizeHandle \in {"se", "sw"}
       IN o.type \in {"rect", "image"} =>
            /\ (IF east THEN o.x ELSE o.x + o.width)
                 = (IF east THEN start.x ELSE start.x + start.width)
            /\ (IF south THEN o.y ELSE o.y + o.height)
                 = (IF south THEN start.y ELSE start.y + start.height)]_vars

\* The nw handle has moved the origin of an object whose width is held at 20.
ResizeFixedCornerSeen ==
  /\ lastOp.op = "mouseMove"
  /\ isResizing
  /\ resizeHandle = "nw"
  /\ Deref(St, resizeObject).type \in {"rect", "image"}
  /\ Deref(St, resizeObject).width = 20
  /\ Deref(St, resizeObject).x # resizeStart.x

\* C19, as the specification states it: every ellipse of the live scene has
\* radiusX >= 10 and radiusY >= 10.  onMouseUp breaks it: the ellipse tool
\* commits any drag above 2 on both axes with half the drag as radii.
EllipseRadiiAtLeast10 ==
  \A i \in 1..Len(objects) :
    objects[i].type = "ellipse" => (objects[i].radiusX >= 10 /\ objects[i].radiusY >= 10)


\* C21, as the specification states it: a file that is turned down, whether
\* it is too large or not an image, is answered with a message the user sees.
\* handleImageUpload breaks it for a file that is not an image: it writes to
\* the console only.
RejectedUploadTellsUser ==
  (lastOp.op = "imageUpload" /\ lastOp.info = "rejected") => notice.modal # ""


\* C22, as the specification states it: after selectTool(t) with t other than
\* select the selection is empty.  selectTool breaks it: it sets currentTool
\* and leaves selectedObjects alone.
ToolSwitchClearsSelection ==
  [][(currentTool' # currentTool /\ currentTool' # "select")
       => selectedObjects' = <<>>]_vars

\* C23, as the specification states it: after selectTool no pointer
\* interaction is in progress, isDrawing, isDragging, isResizing and isPanning
\* are false, connectingFrom is null and currentPath is empty.  selectTool
\* breaks it: it resets none of them.
ToolSwitchResetsInteraction ==
  [][currentTool' # currentTool =>
       /\ ~isDrawing' /\ ~isDragging' /\ ~isResizing' /\ ~isPanning'
       /\ IsNull(connectingFrom')
       /\ currentPath' = <<>>]_vars


\* C24, as the specification states it: with the select tool, a pointer-down
\* on an object or on a resize handle that is followed by the pointer-up with
\* no pointer move in between leaves the history and its cursor as they were.
\* onMouseUp and finalizeResize break it: they call saveState whether or not
\* the pointer has moved.
ClickCommitsNothing ==
  [][(/\ lastOp.op = "mouseDown"
      /\ \/ isDragging /\ ~isDragging'
         \/ isResizing /\ ~isResizing')
       => (history' = history /\ historyIndex' = historyIndex)]_vars


\* C25, as the specification states it, for the objects that have a position:
\* after every pointer move of a drag each selected object stands at its
\* position at the start of the drag plus the travel of the pointer since the
\* pointer-down.  onMouseMove breaks it for a start coordinate of 0, which it
\* takes for a missing one: the travel is then added to the current position
\* on every move.
DragIsCumulative ==
  [][(lastOp'.op = "mouseMove" /\ lastOp'.info = "drag") =>
       \A i \in LiveIdx(selectedObjects) :
         objects[i].dsk = "num" =>
           /\ objects'[i].xk = "num"
           /\ objects'[i].x = objects[i].ds + (lastOp'.at.x - startX)
           /\ objects'[i].y = objects[i].dsy + (lastOp'.at.y - startY)]_vars

\* The pointer-down half of the connect tool's protocol: a down on an object
\* that is no connector makes that object the pending source and the down
\* point the preview; a down anywhere else begins nothing.  A down that finds
\* the text input open only closes it and is none of the connect tool's.
ConnectDownBegins ==
  (lastOp'.op = "mouseDown" /\ lastOp'.info = "connect" /\ ~textInputOpen) =>
    IF lastOp'.hit > 0 /\ objects[lastOp'.hit].type # "connector"
    THEN /\ connectingFrom' = LiveRef(lastOp'.hit)
         /\ connectingPreview' = <<lastOp'.at>>
    ELSE IsNull(connectingFrom')

\* The pointer-up half: an up over an object that is neither the source nor a
\* connector appends exactly one connector from the source's id to that
\* object's id and takes one snapshot; an up over empty space, the source or a
\* connector leaves scene and history alone; the pending connection is
\* cleared in every case.
ConnectUpCommits ==
  (lastOp'.op = "mouseUp" /\ lastOp'.info = "connect") =>
    LET source == Deref(St, connectingFrom)
        h == lastOp'.hit
        other == /\ h > 0
                 /\ objects[h].id # source.id
                 /\ objects[h].type # "connector"
    IN /\ IsNull(connectingFrom')
       /\ connectingPreview' = <<>>
       /\ other =>
            /\ Len(objects') = Len(objects) + 1
            /\ SubSeq(objects', 1, Len(objects)) = objects
            /\ objects'[Len(objects')].type = "connector"
            /\ objects'[Len(objects')].fromId = source.id
            /\ objects'[Len(objects')].toId = objects[h].id
            /\ nCommits' = nCommits + 1
       /\ ~other => UNCHANGED <<objects, history, historyIndex, nCommits,
                                objectIdCounter>>

\* C26: a pointer-down of the connect tool on an object that is no connector
\* begins a pending connection; a pointer-up over a different object that is
\* no connector commits exactly one connector with fromId the source's id and
\* toId the target's id; a pointer-up over empty space, over the same object
\* or over a connector commits nothing; connectingFrom and connectingPreview
\* are null after every such pointer-up.  handleConnectUp tells the same
\* object by identity: after an undo and a redo have rebuilt the scene the
\* source is no object of it any more, and an up over its copy commits a
\* connector from the object to itself.
ConnectProtocol ==
  [][ConnectDownBegins /\ ConnectUpCommits]_vars

\* The step commits the text v typed at the place of the input: one text
\* object more, one snapshot more.
TextCommitted(v) ==
  /\ Len(objects') = Len(objects) + 1
  /\ SubSeq(objects', 1, Len(objects)) = objects
  /\ objects'[Len(objects')].type = "text"
  /\ objects'[Len(objects')].text = v
  /\ objects'[Len(objects')].x = textX
  /\ objects'[Len(objects')].y = textY
  /\ nCommits' = nCommits + 1
  /\ historyIndex' = historyIndex + 1

\* The step leaves scene and history alone.
TextDiscarded ==
  UNCHANGED <<objects, history, historyIndex, nCommits, objectIdCounter>>

\* C27: while a new text is being entered with the text tool, Enter commits
\* the typed text and closes the input, Escape closes it and leaves scene and
\* history unchanged, a blur commits the text if and only if its trimmed
\* value is not empty; the blur event that follows Enter, Escape or a
\* pointer-down calls finalizeText again and adds nothing, and the
\* pointer-down that finds the input open commits at most the one object and
\* the one snapshot of the entry.
TextCommitRules ==
  [][/\ (lastOp'.op \in {"enterText", "blurText"} /\ IsNull(editingTextObject)) =>
          /\ ~textInputOpen'
          /\ IF lastOp'.info # "" THEN TextCommitted(lastOp'.info) ELSE TextDiscarded
     /\ lastOp'.op = "escapeText" => (~textInputOpen' /\ TextDiscarded)
     /\ lastOp'.op = "lateBlur" => TextDiscarded
     /\ (/\ lastOp'.op = "mouseDown" /\ lastOp'.info = "text"
         /\ IsNull(editingTextObject)) =>
          \/ TextDiscarded
          \/ \E v \in Texts : TextCommitted(v)]_vars

\* Enter has committed the text typed on the empty page and the blur that
\* follows has been delivered: the page holds the one text object.
TextCommitRulesSeen ==
  /\ lastOp.op = "lateBlur"
  /\ currentPage = "p1"
  /\ currentTool = "select"
  /\ Len(objects) = 1
  /\ objects[1].type = "text"
  /\ objects[1].text = "b"
  /\ nCommits = 1

\* C28: at every viewport the editor reaches (scale in [0.1, 5.0], offsets
\* offsetX and offsetY) and for every coordinate tried, on either axis,
\* canvasToScreen(screenToCanvas(P)) = P and
\* screenToCanvas(canvasToScreen(Q)) = Q, the arithmetic being exact.
CoordinateInversion ==
  /\ Leq(minScale, scale) /\ Leq(scale, maxScale)
  /\ \A a \in ProbeCoords, offset \in {offsetX, offsetY} :
       /\ canvasToScreen(screenToCanvas(a, offset, scale), offset, scale) = a
       /\ screenToCanvas(canvasToScreen(a, offset, scale), offset, scale) = a

\* The viewport has been zoomed by the wheel away from the origin: the scale
\* is not 1, the offsets are not 0, and screen coordinate 100 shows a canvas
\* coordinate that is no whole number.
CoordinateInversionSeen ==
  /\ lastView.op = "wheel"
  /\ scale # Whole(1)
  /\ offsetX # Whole(0)
  /\ offsetY # Whole(0)
  /\ screenToCanvas(Whole(100), offsetX, scale).d # 1

\* C29: with the draw tool a pointer-down starts a point list that holds the
\* down point; each pointer-move while drawing appends the point moved to; a
\* pointer-up commits one path object holding the points collected, in order,
\* and one snapshot if at least 2 points were collected, and otherwise adds
\* nothing and takes no snapshot; the point list is empty after the
\* pointer-up.
FreehandDraw ==
  [][/\ (lastOp'.op = "mouseDown" /\ lastOp'.info = "draw") =>
          (isDrawing' /\ currentPath' = <<lastOp'.at>>)
     /\ (lastOp'.op = "mouseMove" /\ lastOp'.info = "draw") =>
          currentPath' = Append(currentPath, lastOp'.at)
     /\ (lastOp'.op = "mouseUp" /\ lastOp'.info = "draw") =>
          /\ currentPath' = <<>>
          /\ ~isDrawing'
          /\ IF Len(currentPath) >= 2
             THEN /\ Len(objects') = Len(objects) + 1
                  /\ SubSeq(objects', 1, Len(objects)) = objects
                  /\ objects'[Len(objects')].type = "path"
                  /\ objects'[Len(objects')].points = currentPath
                  /\ nCommits' = nCommits + 1
             ELSE UNCHANGED <<objects, history, historyIndex, nCommits,
                              objectIdCounter>>]_vars

\* A stroke from (0, 0) to (Far, Far) has just been committed as a path.
FreehandDrawSeen ==
  /\ lastOp.op = "mouseUp"
  /\ lastOp.info = "draw"
  /\ objects # <<>>
  /\ objects[Len(objects)].type = "path"
  /\ objects[Len(objects)].points = <<Point(0, 0), Point(Far, Far)>>
  /\ currentPath = <<>>

\* C30: a pointer-down of the select tool that lies on a corner handle of a
\* selected resizable object starts a resize of such an object by a handle
\* the point lies on, whatever objects lie under the point, and changes no
\* selection; a pointer-down that lies on no such handle starts no resize
\* and hits, among the objects that contain the point, the one latest in the
\* object list: it is selected and dragged; with no object under the point
\* the selection is cleared.
HitPriority ==
  [][(lastOp'.op = "mouseDown" /\ currentTool = "select") =>
       LET p == lastOp'.at
           grabbed == {k \in 1..Len(selectedObjects) :
                         LET o == Deref(St, selectedObjects[k])
                         IN /\ isResizable(o)
                            /\ \E h \in Handles : OnHandle(p.x, p.y, o, h, scale)}
           under == {i \in 1..Len(objects) :
                       isPointInObject(p.x, p.y, objects[i], scale)}
       IN IF grabbed # {}
          THEN /\ isResizing'
               /\ ~isDragging'
               /\ selectedObjects' = selectedObjects
               /\ \E k \in grabbed :
                    /\ resizeObject' = selectedObjects[k]
                    /\ OnHandle(p.x, p.y, Deref(St, selectedObjects[k]),
                                resizeHandle', scale)
          ELSE /\ ~isResizing'
               /\ IF under = {}
                  THEN ~isDragging' /\ selectedObjects' = <<>>
                  ELSE LET top == CHOOSE i \in under : \A j \in under : j <= i
                       IN /\ isDragging'
                          /\ Includes(selectedObjects', LiveRef(top))
                          /\ LiveIdx(selectedObjects') \subseteq
                               LiveIdx(selectedObjects) \cup {top}
                          /\ ~Includes(selectedObjects, LiveRef(top)) =>
                               selectedObjects' = <<LiveRef(top)>>]_vars

\* The pointer went down on a handle of the selected first object while the
\* second object, drawn later and not selected, lay under the point: the
\* first object is being resized.
HitPrioritySeen ==
  /\ lastOp.op = "mouseDown"
  /\ lastOp.info = "resize"
  /\ Len(objects) = 2
  /\ selectedObjects = <<LiveRef(1)>>
  /\ resizeObject = LiveRef(1)
  /\ isPointInObject(lastOp.at.x, lastOp.at.y, objects[2], scale)

\* C31: a pointer-down of the select tool that grabs no handle sets the
\* selection as follows.  Without shift: on an unselected object the
\* selection becomes exactly that object, on empty space it becomes empty.
\* With shift: an unselected object is added to the selection, an object
\* already selected is removed from it, and empty space leaves the selection
\* unchanged.  handleSelectDown never removes the clicked object.
ShiftClickToggles ==
  [][(/\ lastOp'.op = "mouseDown"
      /\ lastOp'.info \in {"drag", "miss", "shiftDrag", "shiftMiss"}
      /\ currentTool = "select") =>
       LET hit == lastOp'.hit
           clicked == LiveRef(hit)
           shift == lastOp'.info \in {"shiftDrag", "shiftMiss"}
           was == Includes(selectedObjects, clicked)
       IN /\ (~shift /\ hit > 0 /\ ~was) => selectedObjects' = <<clicked>>
          /\ (~shift /\ hit = 0) => selectedObjects' = <<>>
          /\ (shift /\ hit > 0 /\ ~was) => selectedObjects' = Append(selectedObjects, clicked)
          /\ (shift /\ hit > 0 /\ was) => ~Includes(selectedObjects', clicked)
          /\ (shift /\ hit = 0) => selectedObjects' = selectedObjects]_vars

ReeditInPlace ==
  [][~IsNull(editingTextObject) =>
       /\ Len(objects') <= Len(objects)
       /\ objectIdCounter' = objectIdCounter
       /\ (lastOp'.op \in {"enterText", "blurText"} /\ lastOp'.info # "") =>
            /\ editingTextObject.idx > 0
            /\ objects' = [objects EXCEPT ![editingTextObject.idx].text = lastOp'.info]
            /\ nCommits' = nCommits + 1
            /\ historyIndex' = historyIndex + 1
            /\ Len(history') = Len(history) + 1
            /\ history'[historyIndex' + 1] = Ser(objects')
            /\ IsNull(editingTextObject')
       /\ lastOp'.op = "escapeText" =>
            /\ UNCHANGED <<objects, history, historyIndex, nCommits>>
            /\ IsNull(editingTextObject')
            /\ ~textInputOpen']_vars

\* Enter has put a new value into the text object of page p2, which still is
\* the first of the page's three objects and has its id.
ReeditInPlaceSeen ==
  /\ lastOp.op = "enterText"
  /\ lastOp.info = "b"
  /\ currentPage = "p2"
  /\ Len(objects) = 3
  /\ objects[1].type = "text"
  /\ objects[1].id = 1
  /\ objects[1].text = "b"
  /\ nCommits = 1

\* Every member of the selection is an element of the live list, and none
\* appears twice.
SelectionLive(sel, objs) ==
  /\ \A k \in 1..Len(sel) : sel[k].det = <<>> /\ sel[k].idx \in 1..Len(objs)
  /\ \A j, k \in 1..Len(sel) : sel[j] = sel[k] => j = k

ActiveModes(panning, dragging, resizing, drawing, from) ==
  {m \in {"pan", "drag", "resize", "draw", "connect"} :
     \/ m = "pan" /\ panning
     \/ m = "drag" /\ dragging
     \/ m = "resize" /\ resizing
     \/ m = "draw" /\ drawing
     \/ m = "connect" /\ ~IsNull(from)}

\* C37: after every step at most one of isPanning, isDragging, isResizing,
\* isDrawing and a pending connection is active, and after a pointer-up
\* (mouseup or mouseleave, of either button) none of them is.  A middle-button
\* press while the left button drags an object makes isPanning and isDragging
\* both true, and the pointer-up that follows ends the pan alone.
ModesExclusive ==
  [][LET modes == ActiveModes(isPanning', isDragging', isResizing', isDrawing',
                              connectingFrom')
     IN /\ Cardinality(modes) <= 1
        /\ (lastOp'.op = "mouseUp" \/ (isPanning /\ ~isPanning')) => modes = {}]_vars

\* C38: in every reachable state no connector of the live list has fromId =
\* toId, and no connector's fromId or toId is the id of a connector of the
\* live list, also when undo and redo are pressed while a connection is
\* pending.  After an undo and a redo the pending source is an object of the
\* replaced list; the pointer-up over its copy passes handleConnectUp's
\* identity test and commits a connector from the object to itself.
ConnectorsWellFormed ==
  \A i \in 1..Len(objects) :
    objects[i].type = "connector" =>
      /\ objects[i].fromId # objects[i].toId
      /\ \A j \in 1..Len(objects) :
           objects[j].type = "connector" =>
             objects[j].id \notin {objects[i].fromId, objects[i].toId}

\* C39: no snapshot of the history and no page's canvasData holds an object
\* with the properties _dragStartX / _dragStartY.  saveState clones every
\* property of the live objects but imageElement: a snapshot taken while a
\* drag is active (by the img.onload of a picture that was being decoded)
\* stores the drag-start properties and the position in mid-drag.
NoDragLeak ==
  /\ \A k \in 1..Len(history) :
       \A i \in 1..Len(history[k]) : history[k][i].dsk = "absent"
  /\ \A p \in Pages :
       \A i \in 1..Len(canvasData[p].objs) : canvasData[p].objs[i].dsk = "absent"

\* The data is an empty default state: no page, and no workspace but the
\* default one.
EmptyDefault(data) ==
  data.pages = <<>> /\ data.workspaces \in {<<>>, <<"My Workspace">>}

\* C40: when the fetch of loadData failed (it rejected, or the response was
\* not ok), the client posts no empty default state to /api/data while the
\* database holds workspaces or pages.  After a response that is not ok
\* loadData finds no workspace, creates the default one and calls saveData:
\* the post replaces what the database held.
FailedLoadPostsNothing ==
  [][(/\ loadResult \in {"notOk", "threw"}
      /\ saveTimeout # <<>>
      /\ saveTimeout' = <<>>
      /\ appData # <<>>
      /\ ~EmptyDefault(appData[1])) => ~EmptyDefault(saveTimeout[1])]_vars

====
